---- MODULE Spec2Model ----
(***************************************************************************)
(* Resilience core of the Iggy HTTP gateway (src/src/iggy_client):         *)
(*   - CircuitBreaker      (circuit_breaker.rs)                            *)
(*   - ConnectionState     (connection.rs)                                 *)
(*   - reconnect / with_reconnect and the facade operations (mod.rs)       *)
(*                                                                         *)
(* Specifications:                                                         *)
(*   SpecCB  - the breaker's public API called in any order by concurrent  *)
(*             tasks, with a monotonic clock.                              *)
(*   SpecRc  - concurrent callers of reconnect() against a broker whose    *)
(*             answers are arbitrary; FairSpecRc adds weak fairness of     *)
(*             every task's next step.                                     *)
(*   Spec    - two concurrent callers of with_reconnect: breaker gate,     *)
(*             timed closure, classification, reconnect, one retry.        *)
(***************************************************************************)
(* Atomicity.  Every step is one atomic access (SeqCst load/store/swap) or *)
(* one critical section of a lock.  The write lock on the client is taken, *)
(* used and released within reconnect() without an await in between, so    *)
(* the replacement is one step, enabled when no reader holds the lock.     *)
(* tokio::sync::Notify: a Notified future receives notify_waiters() from   *)
(* the moment it is created (tokio documentation of Notify::notified).     *)
(***************************************************************************)
EXTENDS Integers, FiniteSets, Sequences, TLC

\* ------------------------------------------------------------------ bounds
NumTasks == 2
MaxTime == 4
MaxOpened == 2
MaxRejected == 2
MaxAttemptCount == 4
\* the same caps for the executions of with_reconnect (Spec)
EnvMaxTime == 2
EnvMaxOpened == 1
EnvMaxRejected == 1
\* the middleware specifications (SpecRl, SpecAuth)
MaxClock == 4
\* longest X-Forwarded-For and X-Real-IP values tried (SpecIp)
MaxXffLen == 3
MaxRealLen == 2
\* refreshes of the stats cache followed (SpecBg)
MaxRefreshes == 2
\* turns of the reconnect loop whose backoff is computed (SpecBk)
MaxBackoffAttempt == 66

\* --------------------------------------------- configuration of the breaker
FailureThreshold == 2
SuccessThreshold == 2
OpenDuration == 2

\* ------------------------------------------------ configuration of reconnect
\* max_reconnect_attempts (0 = infinite)
MaxReconnectAttempts == 2

\* -------------------------------------------- configuration of the limiters
\* RATE_LIMIT_RPS and RATE_LIMIT_BURST of the request limiter
Rps == 5
Burst == 2
\* DEFAULT_AUTH_FAILURE_LIMIT (per minute) and DEFAULT_AUTH_FAILURE_BURST
AuthFailureLimit == 10
AuthFailureBurst == 5
\* the limiters' clock counts half replenish intervals of the request limiter
TicksPerSecond == 2 * Rps

Tasks == 1..NumTasks
\* requests in flight in the authentication middleware
Requests == {1, 2}
\* client addresses, the keys of both limiters
Keys == {"ip_a", "ip_b"}

\* the callers of with_reconnect in Spec: one can drive a reconnection while
\* the other waits for it or runs its closure
Callers == {1, 2}

\* Option<Instant>::None
None == -1

VARIABLES
    cb,                 \* CircuitBreakerState behind the breaker's RwLock
    times_opened,       \* AtomicU32
    requests_rejected,  \* AtomicU64
    now,                \* Instant::now(), in ticks
    pc,                 \* position of every task
    ar,                 \* value returned by the task's last allow_request
    fail_streak,        \* history: record_failure calls since the last
                        \* record_success / force_close (saturating)
    ok_streak,          \* history: record_success calls since the breaker
                        \* last became HalfOpen or recorded a failure
                        \* (saturating)
    connected,          \* ConnectionState.connected
    reconnect_attempts, \* ConnectionState.reconnect_attempts
    reconnecting,       \* ConnectionState.reconnecting
    notified,           \* per task: its Notified future on reconnect_complete
    client,             \* the IggyClient behind the RwLock: which of two
                        \* handles, the old one or its replacement
    readers,            \* tasks holding the read lock on the client
    op,                 \* per task: the operation passed to with_reconnect
    calls,              \* per task: invocations of the closure in this call
    first,              \* per task: outcome of the first attempt
    second,             \* per task: outcome of the retry
    lost,               \* per task: the broker call of the first attempt
                        \* failed because the connection was lost
    rc,                 \* per task: result of reconnect()
    ret,                \* per task: result of with_reconnect
    drive,              \* history, per task driving reconnect(): the value
                        \* of reconnect_attempts when it entered the loop
                        \* and its connection attempts since
    seen,               \* history, per task on the waiting path: outcome
                        \* of the driver that held the flag when it lost,
                        \* before the swap: of a driver that finished
                        \* since reconnect() was called
                        \* (both kept for direct callers of reconnect())
    clock,              \* governor's clock, in ticks
    rl_tat,             \* request limiter: per key, the stored arrival time
    rl_log,             \* history: per key, the instants of its admissions
    rl_resp,            \* the request limiter's last answer
    af_tat,             \* auth-failure limiter: per key, stored arrival time
    req,                \* the requests inside ApiKeyAuthService::call
    cidr,               \* a configured range string, the range parsed from
                        \* it, an address and the answer of contains
    ens,                \* the broker's resource of one name and the
                        \* ensure_stream / ensure_topic calls for it
    rid,                \* a request on its way through the layers around the
                        \* router and its response
    bg,                 \* the background tasks of AppState, the stats cache and
                        \* the callers of shutdown()
    bk,                 \* the backoff computation of reconnect(): configuration, attempt, delays
    hdr                 \* a request in front of the client-address
                        \* extraction: its headers, its peer, the key
                        \* the extraction returned

cbVars == <<cb, times_opened, requests_rejected>>
hist == <<fail_streak, ok_streak>>
connVars == <<connected, reconnect_attempts, reconnecting, notified>>
clientVars == <<client, readers>>
envVars == <<op, calls, first, second, lost, ret>>
rcHist == <<drive, seen>>
httpVars == <<clock, rl_tat, rl_log, rl_resp, af_tat, req>>
\* everything outside src/iggy_client
extraVars == <<hdr, cidr, ens, rid, bg, bk>>
notClient == <<httpVars, extraVars>>
vars == <<cb, times_opened, requests_rejected, now, pc, ar, fail_streak,
          ok_streak, connected, reconnect_attempts, reconnecting, notified,
          client, readers, op, calls, first, second, lost, rc, ret, drive,
          seen, clock, rl_tat, rl_log, rl_resp, af_tat, req, hdr, cidr, ens, rid, bg, bk>>

\* ------------------------------------------------------------ CircuitBreaker
CircuitState == {"Closed", "Open", "HalfOpen"}

CircuitBreakerStateNew ==
    [state |-> "Closed", opened_at |-> None,
     consecutive_failures |-> 0, consecutive_successes |-> 0]

\* Instant::elapsed()
Elapsed(opened_at, t) == t - opened_at

\* variant: the open period is taken to end one tick early
AllowRequestRead_EarlyExpiry(s, t) ==
    CASE s.state = "Closed" -> "allow"
      [] s.state = "HalfOpen" -> "allow"
      [] s.state = "Open" ->
            IF s.opened_at # None /\ t - s.opened_at + 1 < OpenDuration
            THEN "reject"
            ELSE "upgrade"

\* allow_request, the section under the read lock.
\*   "allow"   - return true
\*   "reject"  - requests_rejected += 1; return false
\*   "upgrade" - leave the read section and take the write lock
AllowRequestRead(s, t) ==
    CASE s.state = "Closed" -> "allow"
      [] s.state = "HalfOpen" -> "allow"
      [] s.state = "Open" ->
            IF s.opened_at # None /\ Elapsed(s.opened_at, t) < OpenDuration
            THEN "reject"
            ELSE "upgrade"

\* variant: the phase change is not re-checked under the write lock
AllowRequestWrite_NoRecheck(s, t) ==
    [st |-> [s EXCEPT !.state = "HalfOpen", !.consecutive_successes = 0],
     allowed |-> TRUE]

\* allow_request, the section under the write lock (re-check).
AllowRequestWrite(s, t) ==
    IF s.state = "Open"
    THEN IF s.opened_at # None /\ Elapsed(s.opened_at, t) >= OpenDuration
         THEN [st |-> [s EXCEPT !.state = "HalfOpen",
                                !.consecutive_successes = 0],
               allowed |-> TRUE]
         ELSE [st |-> s, allowed |-> FALSE]
    ELSE [st |-> s, allowed |-> TRUE]

\* variant: the success threshold is compared with > instead of >=
RecordSuccess_OffByOne(s) ==
    CASE s.state = "Closed" -> [s EXCEPT !.consecutive_failures = 0]
      [] s.state = "HalfOpen" ->
            LET n == s.consecutive_successes + 1 IN
            IF n > SuccessThreshold
            THEN [s EXCEPT !.consecutive_successes = n,
                           !.state = "Closed",
                           !.opened_at = None,
                           !.consecutive_failures = 0]
            ELSE [s EXCEPT !.consecutive_successes = n]
      [] s.state = "Open" -> s

\* variant: a success in Open clears the failure counter as it does in Closed
RecordSuccess_OpenResets(s) ==
    CASE s.state = "Closed" -> [s EXCEPT !.consecutive_failures = 0]
      [] s.state = "HalfOpen" ->
            LET n == s.consecutive_successes + 1 IN
            IF n >= SuccessThreshold
            THEN [s EXCEPT !.consecutive_successes = n,
                           !.state = "Closed",
                           !.opened_at = None,
                           !.consecutive_failures = 0]
            ELSE [s EXCEPT !.consecutive_successes = n]
      [] s.state = "Open" -> [s EXCEPT !.consecutive_failures = 0]

\* record_success under the write lock.
RecordSuccess(s) ==
    CASE s.state = "Closed" -> [s EXCEPT !.consecutive_failures = 0]
      [] s.state = "HalfOpen" ->
            LET n == s.consecutive_successes + 1 IN
            IF n >= SuccessThreshold
            THEN [s EXCEPT !.consecutive_successes = n,
                           !.state = "Closed",
                           !.opened_at = None,
                           !.consecutive_failures = 0]
            ELSE [s EXCEPT !.consecutive_successes = n]
      [] s.state = "Open" -> s

\* variant: the failure threshold is compared with > instead of >=
RecordFailure_OffByOne(s, t) ==
    CASE s.state = "Closed" ->
            LET n == s.consecutive_failures + 1 IN
            IF n > FailureThreshold
            THEN [st |-> [s EXCEPT !.consecutive_failures = n,
                                   !.state = "Open",
                                   !.opened_at = t],
                  opened |-> 1]
            ELSE [st |-> [s EXCEPT !.consecutive_failures = n], opened |-> 0]
      [] s.state = "HalfOpen" ->
            [st |-> [s EXCEPT !.state = "Open",
                              !.opened_at = t,
                              !.consecutive_successes = 0],
             opened |-> 1]
      [] s.state = "Open" ->
            [st |-> [s EXCEPT !.opened_at = t], opened |-> 0]

\* variant: a failure in HalfOpen reopens without refreshing opened_at
RecordFailure_StaleOpenedAt(s, t) ==
    CASE s.state = "Closed" ->
            LET n == s.consecutive_failures + 1 IN
            IF n >= FailureThreshold
            THEN [st |-> [s EXCEPT !.consecutive_failures = n,
                                   !.state = "Open",
                                   !.opened_at = t],
                  opened |-> 1]
            ELSE [st |-> [s EXCEPT !.consecutive_failures = n], opened |-> 0]
      [] s.state = "HalfOpen" ->
            [st |-> [s EXCEPT !.state = "Open",
                              !.consecutive_successes = 0],
             opened |-> 1]
      [] s.state = "Open" ->
            [st |-> [s EXCEPT !.opened_at = t], opened |-> 0]

\* variant: a failure in Open leaves the timer alone
RecordFailure_OpenKeepsTimer(s, t) ==
    CASE s.state = "Closed" ->
            LET n == s.consecutive_failures + 1 IN
            IF n >= FailureThreshold
            THEN [st |-> [s EXCEPT !.consecutive_failures = n,
                                   !.state = "Open",
                                   !.opened_at = t],
                  opened |-> 1]
            ELSE [st |-> [s EXCEPT !.consecutive_failures = n], opened |-> 0]
      [] s.state = "HalfOpen" ->
            [st |-> [s EXCEPT !.state = "Open",
                              !.opened_at = t,
                              !.consecutive_successes = 0],
             opened |-> 1]
      [] s.state = "Open" -> [st |-> s, opened |-> 0]

\* record_failure under the write lock; opened = the increment of times_opened.
RecordFailure(s, t) ==
    CASE s.state = "Closed" ->
            LET n == s.consecutive_failures + 1 IN
            IF n >= FailureThreshold
            THEN [st |-> [s EXCEPT !.consecutive_failures = n,
                                   !.state = "Open",
                                   !.opened_at = t],
                  opened |-> 1]
            ELSE [st |-> [s EXCEPT !.consecutive_failures = n], opened |-> 0]
      [] s.state = "HalfOpen" ->
            [st |-> [s EXCEPT !.state = "Open",
                              !.opened_at = t,
                              !.consecutive_successes = 0],
             opened |-> 1]
      [] s.state = "Open" ->
            [st |-> [s EXCEPT !.opened_at = t], opened |-> 0]

\* force_close
ForceCloseState(s) ==
    [s EXCEPT !.state = "Closed", !.opened_at = None,
              !.consecutive_failures = 0, !.consecutive_successes = 0]

\* variant: force_open sets the phase only
ForceOpenState_NoTimer(s, t) == [s EXCEPT !.state = "Open"]

\* force_open
ForceOpenState(s, t) == [s EXCEPT !.state = "Open", !.opened_at = t]

\* history bookkeeping
StreakCap == FailureThreshold + 1
BumpStreak(n) == IF n < StreakCap THEN n + 1 ELSE n
OkCap == SuccessThreshold + 1
BumpOk(n) == IF n < OkCap THEN n + 1 ELSE n

\* ------------------------------------------------- breaker calls as actions
\* cb.record_success().await
DoRecordSuccess ==
    /\ cb' = RecordSuccess(cb)
    /\ UNCHANGED <<times_opened, requests_rejected>>

\* cb.record_failure().await
DoRecordFailure(maxOpened) ==
    LET r == RecordFailure(cb, now) IN
    /\ times_opened + r.opened <= maxOpened
    /\ cb' = r.st
    /\ times_opened' = times_opened + r.opened
    /\ UNCHANGED requests_rejected

\* allow_request: first section (read lock)
AllowRead(t, maxRejected) ==
    /\ pc[t] = "ar_read"
    /\ LET r == AllowRequestRead(cb, now) IN
       CASE r = "allow" ->
               /\ pc' = [pc EXCEPT ![t] = "ar_done"]
               /\ ar' = [ar EXCEPT ![t] = TRUE]
               /\ UNCHANGED requests_rejected
         [] r = "reject" ->
               /\ requests_rejected < maxRejected
               /\ requests_rejected' = requests_rejected + 1
               /\ pc' = [pc EXCEPT ![t] = "ar_done"]
               /\ ar' = [ar EXCEPT ![t] = FALSE]
         [] r = "upgrade" ->
               /\ pc' = [pc EXCEPT ![t] = "ar_write"]
               /\ UNCHANGED <<ar, requests_rejected>>
    /\ UNCHANGED <<cb, times_opened, now>>
    /\ UNCHANGED <<connVars, clientVars, envVars, rc>>

\* allow_request: second section (write lock)
AllowWrite(t, maxRejected) ==
    /\ pc[t] = "ar_write"
    /\ LET r == AllowRequestWrite(cb, now) IN
       /\ cb' = r.st
       /\ ar' = [ar EXCEPT ![t] = r.allowed]
       /\ IF r.allowed
          THEN UNCHANGED requests_rejected
          ELSE /\ requests_rejected < maxRejected
               /\ requests_rejected' = requests_rejected + 1
    /\ pc' = [pc EXCEPT ![t] = "ar_done"]
    /\ UNCHANGED <<times_opened, now>>
    /\ UNCHANGED <<connVars, clientVars, envVars, rc>>

\* the clock
Tick(maxTime) ==
    /\ now < maxTime
    /\ now' = now + 1
    /\ UNCHANGED <<cbVars, pc, ar, hist, connVars, clientVars, envVars, rc>>
    /\ UNCHANGED <<rcHist, notClient>>

\* ------------------------------------------------------------------ SpecCB
\* a task calls allow_request
CbCallAllow(t) ==
    /\ pc[t] = "idle"
    /\ pc' = [pc EXCEPT ![t] = "ar_read"]
    /\ UNCHANGED <<cbVars, now, ar, hist, connVars, clientVars, envVars, rc>>
    /\ UNCHANGED <<rcHist, notClient>>

\* allow_request returned to its caller
CbReturnAllow(t) ==
    /\ pc[t] = "ar_done"
    /\ pc' = [pc EXCEPT ![t] = "idle"]
    /\ UNCHANGED <<cbVars, now, ar, hist, connVars, clientVars, envVars, rc>>
    /\ UNCHANGED <<rcHist, notClient>>

CbAllowRead(t) ==
    /\ AllowRead(t, MaxRejected)
    /\ UNCHANGED <<hist, rcHist, notClient>>

CbAllowWrite(t) ==
    /\ AllowWrite(t, MaxRejected)
    /\ ok_streak' = IF cb.state # "HalfOpen" /\ cb'.state = "HalfOpen"
                     THEN 0 ELSE ok_streak
    /\ UNCHANGED fail_streak
    /\ UNCHANGED <<rcHist, notClient>>

CbTick == Tick(MaxTime)

CbRecordSuccess ==
    /\ DoRecordSuccess
    /\ fail_streak' = 0
    /\ ok_streak' = BumpOk(ok_streak)
    /\ UNCHANGED <<now, pc, ar, connVars, clientVars, envVars, rc>>
    /\ UNCHANGED <<rcHist, notClient>>

CbRecordFailure ==
    /\ DoRecordFailure(MaxOpened)
    /\ fail_streak' = BumpStreak(fail_streak)
    /\ ok_streak' = 0
    /\ UNCHANGED <<now, pc, ar, connVars, clientVars, envVars, rc>>
    /\ UNCHANGED <<rcHist, notClient>>

CbForceClose ==
    /\ cb' = ForceCloseState(cb)
    /\ fail_streak' = 0
    /\ UNCHANGED <<times_opened, requests_rejected, now, pc, ar, ok_streak>>
    /\ UNCHANGED <<connVars, clientVars, envVars, rc>>
    /\ UNCHANGED <<rcHist, notClient>>

CbForceOpen ==
    /\ times_opened < MaxOpened
    /\ cb' = ForceOpenState(cb, now)
    /\ times_opened' = times_opened + 1
    /\ UNCHANGED <<requests_rejected, now, pc, ar, hist, connVars, clientVars,
                   envVars, rc>>
    /\ UNCHANGED <<rcHist, notClient>>

\* state after IggyClientWrapper::new: breaker closed, connect() succeeded
InitCommon ==
    /\ connected = TRUE
    /\ reconnect_attempts = 0
    /\ reconnecting = FALSE
    /\ notified = [t \in Tasks |-> "none"]
    /\ client = 0
    /\ readers = {}
    /\ op = [t \in Tasks |-> "none"]
    /\ calls = [t \in Tasks |-> 0]
    /\ first = [t \in Tasks |-> "none"]
    /\ second = [t \in Tasks |-> "none"]
    /\ lost = [t \in Tasks |-> FALSE]
    /\ rc = [t \in Tasks |-> "none"]
    /\ ret = [t \in Tasks |-> "none"]
    /\ drive = [t \in Tasks |-> [from |-> 0, tries |-> 0]]
    /\ seen = [t \in Tasks |-> "none"]

\* state of the middleware layers after RateLimitLayer::with_trusted_proxies
\* and ApiKeyAuth::new: empty state stores, no request in flight
InitHttp ==
    /\ clock = 0
    /\ rl_tat = [k \in Keys |-> None]
    /\ rl_log = [k \in Keys |-> <<>>]
    /\ rl_resp = [key |-> "none", status |-> 0, retry_after |-> 0, wait |-> 0]
    /\ af_tat = [k \in Keys |-> None]
    /\ req = [i \in Requests |->
                [pc |-> "idle", ip |-> "none", path |-> "none",
                 cred |-> "none", consumed |-> 0, compared |-> FALSE,
                 status |-> 0, retry_after |-> 0, wait |-> 0]]

\* the helpers' inputs are drawn by the specifications that apply them
InitExtra ==
    /\ hdr = <<>>
    /\ cidr = <<>>
    /\ ens = <<>>
    /\ rid = <<>>
    /\ bg = <<>>
    /\ bk = <<>>

InitBase ==
    /\ InitCommon
    /\ InitHttp
    /\ cb = CircuitBreakerStateNew
    /\ times_opened = 0
    /\ requests_rejected = 0
    /\ now = 0
    /\ pc = [t \in Tasks |-> "idle"]
    /\ ar = [t \in Tasks |-> TRUE]
    /\ fail_streak = 0
    /\ ok_streak = 0

Init ==
    /\ InitBase
    /\ InitExtra

NextCB ==
    \/ \E t \in Tasks : CbCallAllow(t)
    \/ \E t \in Tasks : CbAllowRead(t)
    \/ \E t \in Tasks : CbAllowWrite(t)
    \/ \E t \in Tasks : CbReturnAllow(t)
    \/ CbRecordSuccess
    \/ CbRecordFailure
    \/ CbForceClose
    \/ CbForceOpen
    \/ CbTick

SpecCB == Init /\ [][NextCB]_vars

TypeOK ==
    /\ cb.state \in CircuitState
    /\ cb.opened_at \in {None} \cup (0..MaxTime)
    /\ times_opened \in 0..MaxOpened
    /\ requests_rejected \in 0..MaxRejected
    /\ now \in 0..MaxTime
\* ------------------------------------------------- ConnectionState, reconnect
\* positions of reconnect() between winning start_reconnecting and the store
\* that clears the flag
DriverPcs ==
    {"rc_set_disc", "rc_loop", "rc_connect", "rc_replace", "rc_set_conn",
     "rc_stop_store"}

\* positions of reconnect() on the path of a caller that lost the swap
WaiterPcs == {"rc_wait_reg", "rc_wait_chk", "rc_waiting", "rc_wait_ret"}

\* the calls of reconnect() whose history is kept: those made directly, not
\* from inside with_reconnect
Recorded(t) == op[t] = "none"

\* variant: the swap result is ignored, every caller takes the driver's path
StartReconnecting_AlwaysWins(flag) == [flag |-> TRUE, won |-> TRUE]

\* ConnectionState::start_reconnecting: swap(true); won iff the flag was clear
StartReconnecting(flag) == [flag |-> TRUE, won |-> ~flag]

\* Notify::notify_waiters: every Notified future that exists receives it
NotifyWaiters(n) ==
    [u \in Tasks |-> IF n[u] = "registered" THEN "fired" ELSE n[u]]

rcFrame == <<cbVars, now, ar, hist, envVars>>

\* reconnect(): if !self.state.start_reconnecting() { ... }
RcStart(t) ==
    /\ pc[t] = "rc_start"
    /\ LET r == StartReconnecting(reconnecting) IN
       /\ reconnecting' = r.flag
       /\ pc' = [pc EXCEPT ![t] = IF r.won THEN "rc_set_disc"
                                          ELSE "rc_wait_reg"]
    /\ UNCHANGED <<connected, reconnect_attempts, notified, clientVars, rc,
                   rcFrame>>
    /\ seen' = IF StartReconnecting(reconnecting).won
               THEN seen
               ELSE [seen EXCEPT ![t] = "none"]
    /\ UNCHANGED <<drive, notClient>>

\* variant: wait_for_reconnection checks the flag first and registers after
WaitRegister_AfterCheck(t) ==
    /\ \/ /\ pc[t] = "rc_wait_reg"
          /\ pc' = [pc EXCEPT ![t] = IF reconnecting THEN "rc_wait_late"
                                                     ELSE "rc_wait_ret"]
          /\ UNCHANGED notified
       \/ /\ pc[t] = "rc_wait_late"
          /\ notified' = [notified EXCEPT ![t] = "registered"]
          /\ pc' = [pc EXCEPT ![t] = "rc_waiting"]
    /\ UNCHANGED <<connected, reconnect_attempts, reconnecting, clientVars,
                   rc, rcFrame>>
    /\ UNCHANGED <<rcHist, notClient>>

\* wait_for_reconnection: let notified = self.reconnect_complete.notified();
WaitRegister(t) ==
    /\ pc[t] = "rc_wait_reg"
    /\ notified' = [notified EXCEPT ![t] = "registered"]
    /\ pc' = [pc EXCEPT ![t] = "rc_wait_chk"]
    /\ UNCHANGED <<connected, reconnect_attempts, reconnecting, clientVars,
                   rc, rcFrame>>
    /\ UNCHANGED <<rcHist, notClient>>

\* wait_for_reconnection: if self.is_reconnecting() { ... }
WaitCheck(t) ==
    /\ pc[t] = "rc_wait_chk"
    /\ IF reconnecting
       THEN /\ pc' = [pc EXCEPT ![t] = "rc_waiting"]
            /\ UNCHANGED notified
       ELSE /\ pc' = [pc EXCEPT ![t] = "rc_wait_ret"]
            /\ notified' = [notified EXCEPT ![t] = "none"]
    /\ UNCHANGED <<connected, reconnect_attempts, reconnecting, clientVars,
                   rc, rcFrame>>
    /\ UNCHANGED <<rcHist, notClient>>

\* wait_for_reconnection: notified.await
WaitAwait(t) ==
    /\ pc[t] = "rc_waiting"
    /\ notified[t] = "fired"
    /\ notified' = [notified EXCEPT ![t] = "none"]
    /\ pc' = [pc EXCEPT ![t] = "rc_wait_ret"]
    /\ UNCHANGED <<connected, reconnect_attempts, reconnecting, clientVars,
                   rc, rcFrame>>
    /\ UNCHANGED <<rcHist, notClient>>

\* reconnect(): return if self.state.is_connected() { Ok } else { Err }
WaitReturn(t) ==
    /\ pc[t] = "rc_wait_ret"
    /\ rc' = [rc EXCEPT ![t] = IF connected THEN "Ok"
                                            ELSE "ConnectionFailed_OtherTask"]
    /\ pc' = [pc EXCEPT ![t] = "rc_done"]
    /\ UNCHANGED <<connVars, clientVars, rcFrame>>
    /\ seen' = [seen EXCEPT ![t] = "none"]
    /\ UNCHANGED <<drive, notClient>>

\* reconnect(): self.state.set_connected(false)
RcSetDisconnected(t) ==
    /\ pc[t] = "rc_set_disc"
    /\ connected' = FALSE
    /\ pc' = [pc EXCEPT ![t] = "rc_loop"]
    /\ UNCHANGED <<reconnect_attempts, reconnecting, notified, clientVars, rc,
                   rcFrame>>
    /\ drive' = IF Recorded(t)
                THEN [drive EXCEPT ![t] = [from |-> reconnect_attempts,
                                           tries |-> 0]]
                ELSE drive
    /\ seen' = [seen EXCEPT ![t] = "none"]
    /\ UNCHANGED notClient

\* variant: the loop gives up one attempt early
RcLoop_OffByOne(t) ==
    /\ pc[t] = "rc_loop"
    /\ reconnect_attempts < MaxAttemptCount
    /\ LET attempt == reconnect_attempts + 1 IN
       /\ reconnect_attempts' = attempt
       /\ IF MaxReconnectAttempts > 0 /\ attempt >= MaxReconnectAttempts
          THEN /\ rc' = [rc EXCEPT ![t] = "ConnectionFailed_Exhausted"]
               /\ pc' = [pc EXCEPT ![t] = "rc_stop_store"]
          ELSE /\ pc' = [pc EXCEPT ![t] = "rc_connect"]
               /\ UNCHANGED rc
    /\ UNCHANGED <<connected, reconnecting, notified, clientVars, rcFrame>>
    /\ UNCHANGED <<rcHist, notClient>>

\* reconnect(): top of the loop: increment_attempts and the max_attempts test
RcLoop(t) ==
    /\ pc[t] = "rc_loop"
    /\ reconnect_attempts < MaxAttemptCount
    /\ LET attempt == reconnect_attempts + 1 IN
       /\ reconnect_attempts' = attempt
       /\ IF MaxReconnectAttempts > 0 /\ attempt > MaxReconnectAttempts
          THEN /\ rc' = [rc EXCEPT ![t] = "ConnectionFailed_Exhausted"]
               /\ pc' = [pc EXCEPT ![t] = "rc_stop_store"]
          ELSE /\ pc' = [pc EXCEPT ![t] = "rc_connect"]
               /\ UNCHANGED rc
    /\ UNCHANGED <<connected, reconnecting, notified, clientVars, rcFrame>>
    /\ UNCHANGED <<rcHist, notClient>>

\* reconnect(): sleep, IggyClient::from_connection_string, new_client.connect():
\* Ok goes on to the replacement, Err goes round the loop
RcConnect(t) ==
    /\ pc[t] = "rc_connect"
    /\ \E ok \in BOOLEAN :
          pc' = [pc EXCEPT ![t] = IF ok THEN "rc_replace" ELSE "rc_loop"]
    /\ UNCHANGED <<connVars, clientVars, rc, rcFrame>>
    /\ drive' = IF Recorded(t) THEN [drive EXCEPT ![t].tries = @ + 1]
                               ELSE drive
    /\ UNCHANGED <<seen, notClient>>

\* reconnect(): self.client.write().await; *client_guard = new_client; drop
RcReplace(t) ==
    /\ pc[t] = "rc_replace"
    /\ readers = {}
    /\ client' = 1 - client
    /\ pc' = [pc EXCEPT ![t] = "rc_set_conn"]
    /\ UNCHANGED <<connVars, readers, rc, rcFrame>>
    /\ UNCHANGED <<rcHist, notClient>>

\* reconnect(): self.state.set_connected(true); return Ok(())
RcSetConnected(t) ==
    /\ pc[t] = "rc_set_conn"
    /\ connected' = TRUE
    /\ reconnect_attempts' = 0
    /\ rc' = [rc EXCEPT ![t] = "Ok"]
    /\ pc' = [pc EXCEPT ![t] = "rc_stop_store"]
    /\ UNCHANGED <<reconnecting, notified, clientVars, rcFrame>>
    /\ UNCHANGED <<rcHist, notClient>>

\* the guard's drop, stop_reconnecting: self.reconnecting.store(false)
StopStore(t) ==
    /\ pc[t] = "rc_stop_store"
    /\ reconnecting' = FALSE
    /\ pc' = [pc EXCEPT ![t] = "rc_stop_notify"]
    /\ UNCHANGED <<connected, reconnect_attempts, notified, clientVars, rc,
                   rcFrame>>
    /\ drive' = [drive EXCEPT ![t] = [from |-> 0, tries |-> 0]]
    /\ seen' = [u \in Tasks |->
                  IF /\ pc[u] \in WaiterPcs \cup {"rc_start"}
                     /\ seen[u] = "none"
                     /\ Recorded(u)
                  THEN (IF rc[t] = "Ok" THEN "Ok" ELSE "Failed")
                  ELSE seen[u]]
    /\ UNCHANGED notClient

\* the guard's drop, stop_reconnecting: self.reconnect_complete.notify_waiters()
StopNotify(t) ==
    /\ pc[t] = "rc_stop_notify"
    /\ notified' = NotifyWaiters(notified)
    /\ pc' = [pc EXCEPT ![t] = "rc_done"]
    /\ UNCHANGED <<connected, reconnect_attempts, reconnecting, clientVars,
                   rc, rcFrame>>
    /\ UNCHANGED <<rcHist, notClient>>

\* variant: no guard, a dropped driver just goes away like a waiter
RcCancel_NoGuard(t) ==
    /\ \/ /\ pc[t] = "rc_waiting"
          /\ notified' = [notified EXCEPT ![t] = "none"]
       \/ /\ pc[t] \in {"rc_connect", "rc_replace"}
          /\ UNCHANGED notified
    /\ pc' = [pc EXCEPT ![t] = "rc_done"]
    /\ rc' = [rc EXCEPT ![t] = "Cancelled"]
    /\ UNCHANGED <<connected, reconnect_attempts, reconnecting, clientVars,
                   rcFrame>>
    /\ seen' = [seen EXCEPT ![t] = "none"]
    /\ UNCHANGED <<drive, notClient>>

\* the reconnect() future is dropped at an await: a waiter just goes away, a
\* driver's guard runs stop_reconnecting
RcCancel(t) ==
    /\ \/ /\ pc[t] = "rc_waiting"
          /\ notified' = [notified EXCEPT ![t] = "none"]
          /\ pc' = [pc EXCEPT ![t] = "rc_done"]
       \/ /\ pc[t] \in {"rc_connect", "rc_replace"}
          /\ pc' = [pc EXCEPT ![t] = "rc_stop_store"]
          /\ UNCHANGED notified
    /\ rc' = [rc EXCEPT ![t] = "Cancelled"]
    /\ UNCHANGED <<connected, reconnect_attempts, reconnecting, clientVars,
                   rcFrame>>
    /\ seen' = [seen EXCEPT ![t] = "none"]
    /\ UNCHANGED <<drive, notClient>>

\* the steps of reconnect() taken by task t
RcStep(t) ==
    \/ RcStart(t)
    \/ WaitRegister(t)
    \/ WaitCheck(t)
    \/ WaitAwait(t)
    \/ WaitReturn(t)
    \/ RcSetDisconnected(t)
    \/ RcLoop(t)
    \/ RcConnect(t)
    \/ RcReplace(t)
    \/ RcSetConnected(t)
    \/ StopStore(t)
    \/ StopNotify(t)

\* ------------------------------------------------------------------ SpecRc
\* a task calls reconnect()
RcCall(t) ==
    /\ pc[t] = "idle"
    /\ pc' = [pc EXCEPT ![t] = "rc_start"]
    /\ rc' = [rc EXCEPT ![t] = "none"]
    /\ UNCHANGED <<connVars, clientVars, rcFrame>>
    /\ UNCHANGED <<rcHist, notClient>>

\* reconnect() returned to its caller
RcReturn(t) ==
    /\ pc[t] = "rc_done"
    /\ pc' = [pc EXCEPT ![t] = "idle"]
    /\ UNCHANGED <<connVars, clientVars, rc, rcFrame>>
    /\ UNCHANGED <<rcHist, notClient>>

NextRc ==
    \/ \E t \in Tasks : RcCall(t)
    \/ \E t \in Tasks : RcStep(t)
    \/ \E t \in Tasks : RcCancel(t)
    \/ \E t \in Tasks : RcReturn(t)

SpecRc == Init /\ [][NextRc]_vars

FairSpecRc == SpecRc /\ \A t \in Tasks : WF_vars(RcStep(t) \/ RcReturn(t))

\* ------------------------------------------------------------ with_reconnect
\* the closures passed to with_reconnect: an arbitrary F, and facade closures
Operations == {"closure", "send_event"}
FacadeOps == {"send_event"}

\* what an arbitrary closure may return (AppResult), besides running out of
\* time: success, two of the errors is_connection_error matches, one it does not
ClosureResults == {"Ok", "ConnectionFailed", "Disconnected", "SendError"}

\* what the broker SDK call inside a facade closure may return
BrokerOutcomes == {"Ok", "BrokerError", "NotConnected"}

\* the facade closures' map_err
FacadeError(o) ==
    CASE o = "send_event" -> "SendError"

\* result of a facade closure whose broker call returned b
FacadeResult(o, b) == IF b = "Ok" THEN "Ok" ELSE FacadeError(o)

\* variant: every error is taken for a connection error
IsConnectionError_Any(e) == e # "Ok"

\* is_connection_error
IsConnectionError(e) ==
    e \in {"ConnectionFailed", "Disconnected", "ConnectionReset"}

wrFrame == <<now, connVars, client>>

\* a caller enters with_reconnect(operation): allow_request is called
WrStart(t) ==
    /\ pc[t] = "idle"
    /\ \E o \in Operations : op' = [op EXCEPT ![t] = o]
    /\ pc' = [pc EXCEPT ![t] = "ar_read"]
    /\ UNCHANGED <<cbVars, hist, ar, readers, calls, first, second, lost, rc,
                   ret, wrFrame>>
    /\ UNCHANGED <<rcHist, notClient>>

\* self.circuit_breaker.allow_request().await
WrAllowRead(t) ==
    /\ AllowRead(t, EnvMaxRejected)
    /\ UNCHANGED <<hist, rcHist, notClient>>

WrAllowWrite(t) ==
    /\ AllowWrite(t, EnvMaxRejected)
    /\ UNCHANGED <<hist, rcHist, notClient>>

WrTick == Tick(EnvMaxTime)

\* timeout(operation()): the closure is invoked and takes the read lock
\* (next = the position while the closure runs)
Invoke(t, next) ==
    /\ readers' = readers \cup {t}
    /\ calls' = [calls EXCEPT ![t] = @ + 1]
    /\ pc' = [pc EXCEPT ![t] = next]

\* variant: the answer of allow_request is ignored
WrGate_NoGate(t) ==
    /\ pc[t] = "ar_done"
    /\ Invoke(t, "op1_run")
    /\ UNCHANGED <<cbVars, hist, ar, op, first, second, lost, rc, ret, wrFrame>>
    /\ UNCHANGED <<rcHist, notClient>>

\* if !allow_request() { return Err(CircuitOpen) }; otherwise first attempt
WrGate(t) ==
    /\ pc[t] = "ar_done"
    /\ IF ar[t]
       THEN /\ Invoke(t, "op1_run")
            /\ UNCHANGED ret
       ELSE /\ pc' = [pc EXCEPT ![t] = "done"]
            /\ ret' = [ret EXCEPT ![t] = "CircuitOpen"]
            /\ UNCHANGED <<readers, calls>>
    /\ UNCHANGED <<cbVars, hist, ar, op, first, second, lost, rc, wrFrame>>
    /\ UNCHANGED <<rcHist, notClient>>

\* the closure returns r, or the timer fires first and the future is dropped
OpOutcome(t, r, l) ==
    /\ readers' = readers \ {t}
    /\ IF pc[t] = "op1_run"
       THEN /\ first' = [first EXCEPT ![t] = r]
            /\ lost' = [lost EXCEPT ![t] = l]
            /\ pc' = [pc EXCEPT ![t] = "op1_done"]
            /\ UNCHANGED second
       ELSE /\ second' = [second EXCEPT ![t] = r]
            /\ pc' = [pc EXCEPT ![t] = "op2_done"]
            /\ UNCHANGED <<first, lost>>

OpFinish(t) ==
    /\ pc[t] \in {"op1_run", "op2_run"}
    /\ \/ OpOutcome(t, "Timeout", FALSE)
       \/ /\ op[t] = "closure"
          /\ \E r \in ClosureResults : OpOutcome(t, r, FALSE)
       \/ /\ op[t] \in FacadeOps
          /\ \E b \in BrokerOutcomes :
                OpOutcome(t, FacadeResult(op[t], b), b = "NotConnected")
    /\ UNCHANGED <<cbVars, hist, ar, op, calls, rc, ret, wrFrame>>
    /\ UNCHANGED <<rcHist, notClient>>

\* match result { ... } of the first attempt
WrFirst(t) ==
    /\ pc[t] = "op1_done"
    /\ CASE first[t] = "Ok" ->
               /\ DoRecordSuccess
               /\ ret' = [ret EXCEPT ![t] = "Ok"]
               /\ pc' = [pc EXCEPT ![t] = "done"]
               /\ UNCHANGED first
         [] first[t] = "Timeout" ->
               /\ IF ~connected
                  THEN /\ first' = [first EXCEPT ![t] = "TimeoutDisconnected"]
                       /\ pc' = [pc EXCEPT ![t] = "to_fail"]
                       /\ UNCHANGED ret
                  ELSE /\ first' = [first EXCEPT ![t] = "TimeoutConnected"]
                       /\ ret' = [ret EXCEPT ![t] = "OperationTimeout"]
                       /\ pc' = [pc EXCEPT ![t] = "done"]
               /\ UNCHANGED cbVars
         [] first[t] \notin {"Ok", "Timeout"} /\ IsConnectionError(first[t]) ->
               /\ DoRecordFailure(EnvMaxOpened)
               /\ pc' = [pc EXCEPT ![t] = "rc_start"]
               /\ UNCHANGED <<ret, first>>
         [] first[t] \notin {"Ok", "Timeout"} /\ ~IsConnectionError(first[t]) ->
               /\ ret' = [ret EXCEPT ![t] = first[t]]
               /\ pc' = [pc EXCEPT ![t] = "done"]
               /\ UNCHANGED <<cbVars, first>>
    /\ lost' = [lost EXCEPT ![t] = FALSE]
    /\ UNCHANGED <<hist, ar, readers, op, calls, second, rc, wrFrame>>
    /\ UNCHANGED <<rcHist, notClient>>

\* variant: the timeout while disconnected is not counted by the breaker
WrTimeoutFail_NoRecord(t) ==
    /\ pc[t] = "to_fail"
    /\ pc' = [pc EXCEPT ![t] = "rc_start"]
    /\ UNCHANGED <<cbVars, hist, ar, readers, envVars, rc, wrFrame>>
    /\ UNCHANGED <<rcHist, notClient>>

\* first attempt timed out while disconnected: record_failure, then reconnect
WrTimeoutFail(t) ==
    /\ pc[t] = "to_fail"
    /\ DoRecordFailure(EnvMaxOpened)
    /\ pc' = [pc EXCEPT ![t] = "rc_start"]
    /\ UNCHANGED <<hist, ar, readers, envVars, rc, wrFrame>>
    /\ UNCHANGED <<rcHist, notClient>>

\* variant: the result of reconnect() is dropped and the retry always runs
RcDone_IgnoreError(t) ==
    /\ pc[t] = "rc_done"
    /\ IF rc[t] = "Cancelled"
       THEN /\ ret' = [ret EXCEPT ![t] = "Cancelled"]
            /\ pc' = [pc EXCEPT ![t] = "done"]
            /\ UNCHANGED <<readers, calls>>
       ELSE /\ Invoke(t, "op2_run")
            /\ UNCHANGED ret
    /\ UNCHANGED <<cbVars, hist, ar, op, first, second, lost, rc, wrFrame>>
    /\ UNCHANGED <<rcHist, notClient>>

\* self.reconnect().await?  and, on Ok, the retry: timeout(operation())
RcDone(t) ==
    /\ pc[t] = "rc_done"
    /\ IF rc[t] = "Ok"
       THEN /\ Invoke(t, "op2_run")
            /\ UNCHANGED ret
       ELSE /\ ret' = [ret EXCEPT ![t] = rc[t]]
            /\ pc' = [pc EXCEPT ![t] = "done"]
            /\ UNCHANGED <<readers, calls>>
    /\ UNCHANGED <<cbVars, hist, ar, op, first, second, lost, rc, wrFrame>>
    /\ UNCHANGED <<rcHist, notClient>>

\* variant: an error of the retry is returned without telling the breaker
WrRetry_NoRecord(t) ==
    /\ pc[t] = "op2_done"
    /\ IF second[t] = "Ok"
       THEN /\ DoRecordSuccess
            /\ ret' = [ret EXCEPT ![t] = "Ok"]
       ELSE /\ ret' = [ret EXCEPT ![t] =
                          IF second[t] = "Timeout"
                          THEN "OperationTimeout_OnRetry" ELSE second[t]]
            /\ UNCHANGED cbVars
    /\ pc' = [pc EXCEPT ![t] = "done"]
    /\ second' = [second EXCEPT ![t] = "none"]
    /\ UNCHANGED <<hist, ar, readers, op, calls, first, lost, rc, wrFrame>>
    /\ UNCHANGED <<rcHist, notClient>>

\* match retry_result { ... }
WrRetry(t) ==
    /\ pc[t] = "op2_done"
    /\ CASE second[t] = "Ok" ->
               /\ DoRecordSuccess
               /\ ret' = [ret EXCEPT ![t] = "Ok"]
         [] second[t] = "Timeout" ->
               /\ DoRecordFailure(EnvMaxOpened)
               /\ ret' = [ret EXCEPT ![t] = "OperationTimeout_OnRetry"]
         [] second[t] \notin {"Ok", "Timeout"}
            /\ IsConnectionError(second[t]) ->
               /\ DoRecordFailure(EnvMaxOpened)
               /\ ret' = [ret EXCEPT ![t] = second[t]]
         [] second[t] \notin {"Ok", "Timeout"}
            /\ ~IsConnectionError(second[t]) ->
               /\ ret' = [ret EXCEPT ![t] = second[t]]
               /\ UNCHANGED cbVars
    /\ pc' = [pc EXCEPT ![t] = "done"]
    /\ second' = [second EXCEPT ![t] = "none"]
    /\ UNCHANGED <<hist, ar, readers, op, calls, first, lost, rc, wrFrame>>
    /\ UNCHANGED <<rcHist, notClient>>

\* with_reconnect returned to its caller
WrReturn(t) ==
    /\ pc[t] = "done"
    /\ pc' = [pc EXCEPT ![t] = "idle"]
    /\ op' = [op EXCEPT ![t] = "none"]
    /\ calls' = [calls EXCEPT ![t] = 0]
    /\ first' = [first EXCEPT ![t] = "none"]
    /\ second' = [second EXCEPT ![t] = "none"]
    /\ lost' = [lost EXCEPT ![t] = FALSE]
    /\ rc' = [rc EXCEPT ![t] = "none"]
    /\ ret' = [ret EXCEPT ![t] = "none"]
    /\ ar' = [ar EXCEPT ![t] = TRUE]
    /\ UNCHANGED <<cbVars, hist, readers, wrFrame>>
    /\ UNCHANGED <<rcHist, notClient>>

\* the with_reconnect future is dropped while the closure runs
WrCancel(t) ==
    /\ pc[t] \in {"op1_run", "op2_run"}
    /\ readers' = readers \ {t}
    /\ ret' = [ret EXCEPT ![t] = "Cancelled"]
    /\ pc' = [pc EXCEPT ![t] = "done"]
    /\ UNCHANGED <<cbVars, hist, ar, op, calls, first, second, lost, rc,
                   wrFrame>>
    /\ UNCHANGED <<rcHist, notClient>>

Next ==
    \/ \E t \in Callers : WrStart(t)
    \/ \E t \in Callers : WrAllowRead(t)
    \/ \E t \in Callers : WrAllowWrite(t)
    \/ \E t \in Callers : WrGate(t)
    \/ \E t \in Callers : OpFinish(t)
    \/ \E t \in Callers : WrFirst(t)
    \/ \E t \in Callers : WrTimeoutFail(t)
    \/ \E t \in Callers : RcStep(t)
    \/ \E t \in Callers : RcDone(t)
    \/ \E t \in Callers : WrRetry(t)
    \/ \E t \in Callers : WrReturn(t)
    \/ \E t \in Callers : WrCancel(t)
    \/ \E t \in Callers : RcCancel(t)
    \/ WrTick

Spec == Init /\ [][Next]_vars

\* ------------------------------------------------------------------ limiters
\* the state the middleware layers never touch
clientSide == <<cbVars, now, pc, ar, hist, connVars, clientVars, envVars, rc,
                rcHist>>
notHttp == <<clientSide, extraVars>>

Max(a, b) == IF a >= b THEN a ELSE b

\* Quota::per_second(r): one cell every 1/r second, burst r
QuotaPerSecond(r) ==
    [replenish_1_per |-> TicksPerSecond \div r, max_burst |-> r]

\* Quota::per_minute(n): one cell every 60/n seconds, burst n
QuotaPerMinute(n) ==
    [replenish_1_per |-> (60 * TicksPerSecond) \div n, max_burst |-> n]

\* Quota::allow_burst(b): the burst size is replaced by b
AllowBurst(q, b) == [q EXCEPT !.max_burst = b]

\* RateLimitLayer::with_trusted_proxies: a burst of 0 is taken as 1
RateLimitQuota ==
    AllowBurst(QuotaPerSecond(Rps), IF Burst = 0 THEN 1 ELSE Burst)

\* ApiKeyAuth::new: the quota of the auth-failure limiter
AuthFailureQuota ==
    AllowBurst(QuotaPerMinute(AuthFailureLimit), AuthFailureBurst)

\* RateLimiter::check_key at instant t0 for a key whose stored theoretical
\* arrival time is tat (None: the key is new): the cell is refused when t0 is
\* earlier than tat - t * burst, otherwise tat advances by one interval
CheckKey(q, tat, t0) ==
    LET t == q.replenish_1_per
        tau == t * q.max_burst
        cur == IF tat = None THEN t0 + t ELSE tat
        earliest == Max(cur - tau, 0)
    IN  IF t0 < earliest
        THEN [ok |-> FALSE, tat |-> tat, not_until |-> earliest]
        ELSE [ok |-> TRUE, tat |-> Max(cur, t0) + t, not_until |-> 0]

\* NotUntil::wait_time_from(now), saturating at zero
WaitTimeFrom(not_until, t0) == Max(not_until - t0, 0)

\* Duration::as_secs: whole seconds, the fraction is dropped
AsSecs(d) == d \div TicksPerSecond

\* wait_time.as_secs().max(1)
RetryAfter(wait) == Max(AsSecs(wait), 1)

\* the clock advances
HttpTick ==
    /\ clock < MaxClock
    /\ clock' = clock + 1
    /\ UNCHANGED <<rl_tat, rl_log, rl_resp, af_tat, req, notHttp>>

\* ------------------------------------------------------------------- SpecRl
\* RateLimitService::call for a request whose client address is k
RlCall(k) ==
    /\ LET r == CheckKey(RateLimitQuota, rl_tat[k], clock)
           wait == WaitTimeFrom(r.not_until, clock)
       IN  IF r.ok
           THEN /\ rl_tat' = [rl_tat EXCEPT ![k] = r.tat]
                /\ rl_log' = [rl_log EXCEPT ![k] = Append(@, clock)]
                /\ rl_resp' = [key |-> k, status |-> 200, retry_after |-> 0,
                               wait |-> 0]
           ELSE /\ rl_resp' = [key |-> k, status |-> 429,
                               retry_after |-> RetryAfter(wait),
                               wait |-> wait]
                /\ UNCHANGED <<rl_tat, rl_log>>
    /\ UNCHANGED <<clock, af_tat, req, notHttp>>

NextRl ==
    \/ HttpTick
    \/ \E k \in Keys : RlCall(k)

SpecRl == Init /\ [][NextRl]_vars

\* ----------------------------------------------------------------- SpecAuth
\* DEFAULT_BYPASS_PATHS, and a path that is not among them
BypassPaths == {"/health", "/ready"}
Paths == {"/health", "/stats"}

\* what extract_api_key and constant_time_eq make of the request: the expected
\* key, another key, or no key at all
Credentials == {"valid", "wrong", "missing"}

IdleRequest ==
    [pc |-> "idle", ip |-> "none", path |-> "none", cred |-> "none",
     consumed |-> 0, compared |-> FALSE, status |-> 0, retry_after |-> 0,
     wait |-> 0]

authFrame == <<clock, rl_tat, rl_log, rl_resp, notHttp>>

\* variant: a request carrying the expected key passes before the limiter is
\* consulted
AuthCall_CompareFirst(i) ==
    /\ req[i].pc = "idle"
    /\ \E k \in Keys, p \in Paths, c \in Credentials :
          LET r == CheckKey(AuthFailureQuota, af_tat[k], clock)
              wait == WaitTimeFrom(r.not_until, clock)
              arrived == [IdleRequest EXCEPT !.ip = k, !.path = p, !.cred = c]
          IN  IF p \in BypassPaths
              THEN /\ req' = [req EXCEPT ![i] =
                                [arrived EXCEPT !.pc = "done", !.status = 200]]
                   /\ UNCHANGED af_tat
              ELSE IF c = "valid"
              THEN /\ req' = [req EXCEPT ![i] =
                                [arrived EXCEPT !.pc = "done", !.status = 200,
                                                !.compared = TRUE]]
                   /\ UNCHANGED af_tat
              ELSE IF r.ok
              THEN /\ req' = [req EXCEPT ![i] =
                                [arrived EXCEPT !.pc = "checked",
                                                !.consumed = 1]]
                   /\ af_tat' = [af_tat EXCEPT ![k] = r.tat]
              ELSE /\ req' = [req EXCEPT ![i] =
                                [arrived EXCEPT !.pc = "done", !.status = 429,
                                                !.retry_after =
                                                    RetryAfter(wait),
                                                !.wait = wait]]
                   /\ UNCHANGED af_tat
    /\ UNCHANGED authFrame

\* ApiKeyAuthService::call with an expected key configured, up to the block
\* check: a bypassed path goes to the inner service; otherwise
\* limiter.check_key(client_ip) takes a cell or the request is answered 429
AuthCall(i) ==
    /\ req[i].pc = "idle"
    /\ \E k \in Keys, p \in Paths, c \in Credentials :
          LET r == CheckKey(AuthFailureQuota, af_tat[k], clock)
              wait == WaitTimeFrom(r.not_until, clock)
              arrived == [IdleRequest EXCEPT !.ip = k, !.path = p, !.cred = c]
          IN  IF p \in BypassPaths
              THEN /\ req' = [req EXCEPT ![i] =
                                [arrived EXCEPT !.pc = "done", !.status = 200]]
                   /\ UNCHANGED af_tat
              ELSE IF r.ok
              THEN /\ req' = [req EXCEPT ![i] =
                                [arrived EXCEPT !.pc = "checked",
                                                !.consumed = 1]]
                   /\ af_tat' = [af_tat EXCEPT ![k] = r.tat]
              ELSE /\ req' = [req EXCEPT ![i] =
                                [arrived EXCEPT !.pc = "done", !.status = 429,
                                                !.retry_after =
                                                    RetryAfter(wait),
                                                !.wait = wait]]
                   /\ UNCHANGED af_tat
    /\ UNCHANGED authFrame

\* ApiKeyAuthService::call after the block check: the key is extracted and
\* compared; a match goes to the inner service, a mismatch or a missing key
\* calls limiter.check_key once more, ignoring its answer, and is answered 401
AuthValidate(i) ==
    /\ req[i].pc = "checked"
    /\ LET k == req[i].ip
           r == CheckKey(AuthFailureQuota, af_tat[k], clock)
       IN  IF req[i].cred = "valid"
           THEN /\ req' = [req EXCEPT ![i].pc = "done", ![i].compared = TRUE,
                                      ![i].status = 200]
                /\ UNCHANGED af_tat
           ELSE /\ req' = [req EXCEPT ![i].pc = "done", ![i].compared = TRUE,
                                      ![i].status = 401,
                                      ![i].consumed =
                                          IF r.ok THEN @ + 1 ELSE @]
                /\ af_tat' = [af_tat EXCEPT ![k] = r.tat]
    /\ UNCHANGED authFrame

\* the response has been sent
AuthReturn(i) ==
    /\ req[i].pc = "done"
    /\ req' = [req EXCEPT ![i] = IdleRequest]
    /\ UNCHANGED <<af_tat, authFrame>>

NextAuth ==
    \/ HttpTick
    \/ \E i \in Requests : AuthCall(i)
    \/ \E i \in Requests : AuthValidate(i)
    \/ \E i \in Requests : AuthReturn(i)

SpecAuth == Init /\ [][NextAuth]_vars

\* ------------------------------------------------------------------- SpecIp
\* the bytes of a header value: an address character, a comma, a space, a
\* character outside ASCII ("u", well-formed UTF-8) and a byte that is not
\* UTF-8 at all ("x")
Chars == {"1", ",", " ", "u", "x"}
Strs(n) == UNION {[1..k -> Chars] : k \in 0..n}

\* UNKNOWN_IP: the key of requests without a usable header (no header value
\* is equal to it)
UnknownIp == <<"unknown">>

\* HeaderValue::to_str: Ok when every byte is a visible ASCII character
ToStr(v) == \A i \in DOMAIN v : v[i] \in {"1", ",", " "}

\* value.split(',').next(): the part before the first comma
RECURSIVE SplitFirst(_)
SplitFirst(v) ==
    IF v = <<>> \/ Head(v) = "," THEN <<>>
    ELSE <<Head(v)>> \o SplitFirst(Tail(v))

\* str::trim: trim_start, then trim_end
Trim(v) ==
    LET RECURSIVE TrimStart(_)
        TrimStart(w) ==
            IF w # <<>> /\ Head(w) = " " THEN TrimStart(Tail(w)) ELSE w
        RECURSIVE TrimEnd(_)
        TrimEnd(w) ==
            IF w # <<>> /\ w[Len(w)] = " "
            THEN TrimEnd(SubSeq(w, 1, Len(w) - 1))
            ELSE w
    IN  TrimEnd(TrimStart(v))

\* variant: X-Real-IP is looked at before X-Forwarded-For
ExtractIpFromHeaders_RealFirst(h) ==
    IF h.has_real /\ ToStr(h.real)
    THEN [src |-> "FromRealIp", ip |-> Trim(h.real)]
    ELSE IF h.has_xff /\ ToStr(h.xff)
    THEN [src |-> "FromXff", ip |-> Trim(SplitFirst(h.xff))]
    ELSE [src |-> "NotFound", ip |-> <<>>]

\* extract_ip_from_headers
ExtractIpFromHeaders(h) ==
    IF h.has_xff /\ ToStr(h.xff)
    THEN [src |-> "FromXff", ip |-> Trim(SplitFirst(h.xff))]
    ELSE IF h.has_real /\ ToStr(h.real)
    THEN [src |-> "FromRealIp", ip |-> Trim(h.real)]
    ELSE [src |-> "NotFound", ip |-> <<>>]

\* extract_client_ip_with_validation(req, trusted_proxies): the configuration
\* only decides what is logged
ExtractClientIpWithValidation(h, enabled) ==
    LET e == ExtractIpFromHeaders(h)
    IN  CASE e.src = "FromXff" -> e.ip
          [] e.src = "FromRealIp" -> e.ip
          [] e.src = "NotFound" -> UnknownIp

\* no key extracted yet
NoKey == [by |-> "none", ip |-> <<>>]

\* a request in front of the extraction: any header values, validation enabled
\* or not, its peer inside or outside the configured ranges
InitIp ==
    /\ InitBase
    /\ hdr \in [xff : Strs(MaxXffLen), has_xff : BOOLEAN,
                real : Strs(MaxRealLen), has_real : BOOLEAN,
                validation : BOOLEAN, peer_in_range : BOOLEAN,
                key : {NoKey}]
    /\ hdr.has_xff \/ hdr.xff = <<>>
    /\ hdr.has_real \/ hdr.real = <<>>
    /\ cidr = <<>>
    /\ ens = <<>>
    /\ rid = <<>>
    /\ bg = <<>>
    /\ bk = <<>>

\* RateLimitService::call: the key of the request
RlExtract ==
    /\ hdr.key = NoKey
    /\ hdr' = [hdr EXCEPT
                 !.key = [by |-> "rate_limit",
                          ip |-> ExtractClientIpWithValidation(
                                     hdr, hdr.validation)]]
    /\ UNCHANGED <<clientSide, httpVars, cidr, ens, rid, bg, bk>>

SpecIp == InitIp /\ [][RlExtract]_vars

\* ----------------------------------------------------------------- SpecCidr
\* An address is its family and its bits, most significant first (u32::from /
\* u128::from of the address); a range string is its parts between '/', each
\* an address literal, a decimal number or something else.

\* bits of an IpAddr::V4 / IpAddr::V6
Width(family) == IF family = "V4" THEN 32 ELSE 128

\* variant: the shift without the test for prefix_len == 0; the shift amount
\* wraps at the width
Mask_NoZeroCase(family, prefix_len) ==
    LET w == Width(family)
        n == (w - prefix_len) % w
    IN  [i \in 1..w |-> IF i + n <= w THEN 1 ELSE 0]

\* mask: 0 for prefix_len = 0, otherwise MAX << (width - prefix_len)
Mask(family, prefix_len) ==
    LET w == Width(family)
        n == w - prefix_len
    IN  IF prefix_len = 0 THEN [i \in 1..w |-> 0]
        ELSE [i \in 1..w |-> IF i + n <= w THEN 1 ELSE 0]

\* CidrRange::contains
Contains(range, ip) ==
    IF range.network.family = ip.family
    THEN LET mask == Mask(ip.family, range.prefix_len)
             And(x, y) == [i \in DOMAIN x |-> x[i] * y[i]]
         IN  And(range.network.bits, mask) = And(ip.bits, mask)
    ELSE FALSE

\* CidrRange::parse; <<>> is None
Parse(parts) ==
    LET head == parts[1]
    IN  IF Len(parts) # 2
        THEN IF head.kind = "ip"
             THEN <<[network |-> head.ip,
                     prefix_len |-> Width(head.ip.family)]>>
             ELSE <<>>
        ELSE IF head.kind # "ip" THEN <<>>
        ELSE IF ~(parts[2].kind = "num" /\ parts[2].n <= 255) THEN <<>>
        ELSE IF parts[2].n > Width(head.ip.family) THEN <<>>
        ELSE <<[network |-> head.ip, prefix_len |-> parts[2].n]>>

\* range strings and addresses: addresses with bits set among the first and
\* last two, every prefix length up to past the wider family, numbers at and
\* past the end of u8
InitCidr ==
    LET Ip(family, ones) ==
            [family |-> family,
             bits |-> [i \in 1..Width(family) |->
                          IF i \in ones THEN 1 ELSE 0]]
        Nets == UNION {{Ip(f, ones) :
                           ones \in {{}, {1}, {Width(f)}, {1, Width(f)}}} :
                       f \in {"V4", "V6"}}
        Addrs == UNION {{Ip(f, ones) :
                            ones \in SUBSET {1, 2, Width(f) - 1, Width(f)}} :
                        f \in {"V4", "V6"}}
        IpTok == {[kind |-> "ip", ip |-> a] : a \in Nets}
        NumTok == {[kind |-> "num", n |-> n] : n \in (0..129) \cup {255, 256}}
        BadTok == {[kind |-> "bad"]}
        Tok == IpTok \cup NumTok \cup BadTok
        Strings ==
            {<<t>> : t \in Tok}
            \cup {<<t, u>> : t \in IpTok, u \in NumTok \cup BadTok}
            \cup {<<t, u>> : t \in NumTok \cup BadTok, u \in {[kind |-> "num", n |-> 8]}}
            \cup {<<t, u, u>> : t \in IpTok \cup BadTok,
                                u \in {[kind |-> "num", n |-> 8]}}
    IN  /\ InitBase
        /\ hdr = <<>>
        /\ ens = <<>>
        /\ rid = <<>>
        /\ bg = <<>>
        /\ bk = <<>>
        /\ cidr \in [parts : Strings, ip : Addrs, pc : {"parse"},
                     range : {<<>>}, contains : {FALSE}]

\* TrustedProxyConfig::new: the string is parsed, an invalid one is skipped
CidrParse ==
    /\ cidr.pc = "parse"
    /\ cidr' = [cidr EXCEPT
                  !.range = Parse(cidr.parts),
                  !.pc = IF Parse(cidr.parts) = <<>> THEN "skipped"
                         ELSE "contains"]
    /\ UNCHANGED <<clientSide, httpVars, hdr, ens, rid, bg, bk>>

\* TrustedProxyConfig::is_trusted: range.contains(&ip)
CidrContains ==
    /\ cidr.pc = "contains"
    /\ cidr' = [cidr EXCEPT !.contains = Contains(cidr.range[1], cidr.ip),
                            !.pc = "done"]
    /\ UNCHANGED <<clientSide, httpVars, hdr, ens, rid, bg, bk>>

SpecCidr == InitCidr /\ [][CidrParse \/ CidrContains]_vars

\* ------------------------------------------------------------------ SpecEns
\* ensure_stream(name) / ensure_topic(stream, topic, _) for one name, called
\* by each caller once, next to a peer that may create the same resource. The
\* broker keeps names unique: creating an existing name is an error. The
\* closure's StreamError / TopicError is not a connection error, so
\* with_reconnect returns it as it is.
InitEns ==
    /\ InitBase
    /\ hdr = <<>>
    /\ cidr = <<>>
    /\ rid = <<>>
    /\ bg = <<>>
    /\ bk = <<>>
    /\ ens \in [kind : {"stream", "topic"},
                created : {0, 1},
                peer : {"idle"},
                pc : {[t \in Callers |-> "lookup"]},
                answer : {[t \in Callers |-> "none"]},
                ret : {[t \in Callers |-> "none"]},
                existed : {[t \in Callers |-> FALSE]}]

\* client.get_stream / client.get_topic: Ok(Some(_)) returns Ok(()); Ok(None)
\* and Err(_) go on to create
EnsLookup(t) ==
    /\ ens.pc[t] = "lookup"
    /\ \E answer \in {"Some", "None", "Err"} :
          /\ answer = "Some" => ens.created > 0
          /\ answer = "None" => ens.created = 0
          /\ ens' = IF answer = "Some"
                    THEN [ens EXCEPT !.pc[t] = "done", !.ret[t] = "Ok",
                                     !.answer[t] = answer,
                                     !.existed[t] = TRUE]
                    ELSE [ens EXCEPT !.pc[t] = "create",
                                     !.answer[t] = answer]
    /\ UNCHANGED <<clientSide, httpVars, hdr, cidr, rid, bg, bk>>

\* client.create_stream / client.create_topic, its error mapped to
\* StreamError / TopicError and returned
EnsCreate(t) ==
    /\ ens.pc[t] = "create"
    /\ ens' = IF ens.created > 0
              THEN [ens EXCEPT !.pc[t] = "done", !.existed[t] = TRUE,
                               !.ret[t] = IF ens.kind = "stream"
                                          THEN "StreamError"
                                          ELSE "TopicError"]
              ELSE [ens EXCEPT !.pc[t] = "done", !.ret[t] = "Ok",
                               !.existed[t] = TRUE, !.created = @ + 1]
    /\ UNCHANGED <<clientSide, httpVars, hdr, cidr, rid, bg, bk>>

\* another instance creates the resource
PeerCreate ==
    /\ ens.peer = "idle"
    /\ ens' = [ens EXCEPT !.peer = "done",
                          !.created = IF @ > 0 THEN @ ELSE 1]
    /\ UNCHANGED <<clientSide, httpVars, hdr, cidr, rid, bg, bk>>

NextEns ==
    \/ \E t \in Callers : EnsLookup(t)
    \/ \E t \in Callers : EnsCreate(t)
    \/ PeerCreate

SpecEns == InitEns /\ [][NextEns]_vars

\* ------------------------------------------------------------------ SpecRid
\* build_router stacks the layers with Router::layer, the last one added
\* outermost: rate limiting (when enabled), then authentication (when
\* enabled), then the request id, then tracing, CORS, the body limit and the
\* handler. A request's X-Request-Id is absent, empty, a visible-ASCII value
\* or a value to_str refuses; "uuid" is a value Uuid::new_v4 made.

\* extract_or_generate_request_id
ExtractOrGenerateRequestId(header) ==
    IF header \notin {"absent", "opaque", ""} THEN header ELSE "uuid"

InitRid ==
    /\ InitBase
    /\ hdr = <<>>
    /\ cidr = <<>>
    /\ ens = <<>>
    /\ bg = <<>>
    /\ bk = <<>>
    /\ rid \in [rate_limiting_enabled : BOOLEAN,
                auth_enabled : BOOLEAN,
                header : {"absent", "", "abc", "opaque"},
                at : {"rate_limit"},
                request_id : {"none"},
                seen_by_handler : {"none"},
                status : {0},
                response_header : {"absent"}]

\* RateLimitService::call and ApiKeyAuthService::call: the layer answers by
\* itself (429, 401) or passes the request inwards
RidOuterLayer ==
    /\ rid.at \in {"rate_limit", "auth"}
    /\ LET enabled == IF rid.at = "rate_limit" THEN rid.rate_limiting_enabled
                      ELSE rid.auth_enabled
           inwards == IF rid.at = "rate_limit" THEN "auth" ELSE "request_id"
           refusals == IF rid.at = "rate_limit" THEN {429} ELSE {401, 429}
       IN  \/ rid' = [rid EXCEPT !.at = inwards]
           \/ /\ enabled
              /\ \E status \in refusals :
                    rid' = [rid EXCEPT !.at = "done", !.status = status]
    /\ UNCHANGED <<clientSide, httpVars, hdr, cidr, ens, bg, bk>>

\* RequestIdService::call, up to inner.call(req): the id is put into the
\* request's headers
RequestIdCall ==
    /\ rid.at = "request_id"
    /\ rid' = [rid EXCEPT
                 !.at = "inner",
                 !.request_id = ExtractOrGenerateRequestId(rid.header),
                 !.seen_by_handler = ExtractOrGenerateRequestId(rid.header)]
    /\ UNCHANGED <<clientSide, httpVars, hdr, cidr, ens, bg, bk>>

\* RequestIdService::call, from the inner service's response on: the id is
\* inserted into the response's headers
RequestIdRespond ==
    /\ rid.at = "inner"
    /\ \E status \in {200, 404, 500} :
          rid' = [rid EXCEPT !.at = "done", !.status = status,
                             !.response_header = rid.request_id]
    /\ UNCHANGED <<clientSide, httpVars, hdr, cidr, ens, bg, bk>>

SpecRid == InitRid /\ [][RidOuterLayer \/ RequestIdCall \/ RequestIdRespond]_vars

\* ------------------------------------------------------------------- SpecBg
\* AppState::new spawns the stats-refresh task, which starts with a refresh,
\* and the health-check task. A refresh is list_streams under with_reconnect
\* and its operation timeout. The closure of list_streams maps every error of
\* the client to StreamError, and the connected flag is cleared by reconnect()
\* only, so neither arm of with_reconnect that calls reconnect() is taken:
\* the refresh ends with Ok, StreamError, CircuitOpen or OperationTimeout.
\* The cache is the number of refreshes written (its last_updated). The first
\* tick of both intervals completes at once.
InitBg ==
    /\ InitBase
    /\ hdr = <<>>
    /\ cidr = <<>>
    /\ ens = <<>>
    /\ rid = <<>>
    /\ bk = <<>>
    /\ bg \in [broker_up : BOOLEAN,
               cancelled : {FALSE},
               closed : {FALSE},
               stats : {"op"},
               cache : {0},
               last_refresh : {"none"},
               in_flight_at_cancel : {FALSE},
               health : {"select"},
               health_seen : {"none"},
               sd : {[c \in Callers |-> "idle"]},
               snap : {[c \in Callers |-> None]}]

\* the broker becomes reachable or unreachable
BgBroker ==
    /\ bg' = [bg EXCEPT !.broker_up = ~@]
    /\ UNCHANGED <<clientSide, httpVars, hdr, cidr, ens, rid, bk>>

\* variant: a failed refresh stores the default snapshot
RefreshRun_ClearsOnError ==
    /\ bg.stats = "op"
    /\ \/ /\ bg.broker_up
          /\ bg' = [bg EXCEPT !.stats = "select", !.cache = @ + 1,
                              !.last_refresh = "ok"]
       \/ bg' = [bg EXCEPT !.stats = "select", !.cache = 0,
                           !.last_refresh = "err"]
    /\ UNCHANGED <<clientSide, httpVars, hdr, cidr, ens, rid, bk>>

\* refresh_stats_impl in flight, not raced against the cancellation: the
\* operation returns Ok and the cache is written (cache counts the snapshots
\* written, each with its own last_updated), or it returns an error that is
\* logged
RefreshRun ==
    /\ bg.stats = "op"
    /\ \/ /\ bg.broker_up
          /\ bg' = [bg EXCEPT !.stats = "select", !.cache = @ + 1,
                              !.last_refresh = "ok"]
       \/ bg' = [bg EXCEPT !.stats = "select", !.last_refresh = "err"]
    /\ UNCHANGED <<clientSide, httpVars, hdr, cidr, ens, rid, bk>>

\* variant: the loop only waits for ticks
StatsSelect_NoCancel ==
    /\ bg.stats = "select"
    /\ ~bg.cancelled
    /\ bg.cache < MaxRefreshes
    /\ bg' = [bg EXCEPT !.stats = "op"]
    /\ UNCHANGED <<clientSide, httpVars, hdr, cidr, ens, rid, bk>>

\* the stats task's select!, biased: cancellation breaks the loop, otherwise
\* a tick starts a refresh
StatsSelect ==
    /\ bg.stats = "select"
    /\ \/ /\ bg.cancelled
          /\ bg' = [bg EXCEPT !.stats = "exited"]
       \/ /\ ~bg.cancelled
          /\ bg.cache < MaxRefreshes
          /\ bg' = [bg EXCEPT !.stats = "op"]
    /\ UNCHANGED <<clientSide, httpVars, hdr, cidr, ens, rid, bk>>

\* the health task's select!, biased: cancellation breaks the loop, otherwise
\* a tick reads is_connected and logs it
HealthSelect ==
    /\ bg.health = "select"
    /\ \/ /\ bg.cancelled
          /\ bg' = [bg EXCEPT !.health = "exited"]
       \/ /\ ~bg.cancelled
          /\ bg' = [bg EXCEPT !.health_seen = IF bg.broker_up THEN "up"
                                              ELSE "down"]
    /\ UNCHANGED <<clientSide, httpVars, hdr, cidr, ens, rid, bk>>

\* shutdown(), up to task_tracker.wait(): cancel and close
Shutdown(c) ==
    /\ bg.sd[c] = "idle"
    /\ bg' = [bg EXCEPT
                !.sd[c] = "waiting",
                !.cancelled = TRUE,
                !.closed = TRUE,
                !.in_flight_at_cancel =
                    @ \/ (~bg.cancelled /\ bg.stats = "op")]
    /\ UNCHANGED <<clientSide, httpVars, hdr, cidr, ens, rid, bk>>

\* variant: shutdown() returns without waiting for the tracked tasks
ShutdownReturn_NoWait(c) ==
    /\ bg.sd[c] = "waiting"
    /\ bg' = [bg EXCEPT !.sd[c] = "returned", !.snap[c] = bg.cache]
    /\ UNCHANGED <<clientSide, httpVars, hdr, cidr, ens, rid, bk>>

\* task_tracker.wait() completes: the tracker is closed and both tasks have
\* finished; the caller reads the snapshot (cached_stats)
ShutdownReturn(c) ==
    /\ bg.sd[c] = "waiting"
    /\ bg.closed
    /\ bg.stats = "exited"
    /\ bg.health = "exited"
    /\ bg' = [bg EXCEPT !.sd[c] = "returned", !.snap[c] = bg.cache]
    /\ UNCHANGED <<clientSide, httpVars, hdr, cidr, ens, rid, bk>>

NextBg ==
    \/ BgBroker
    \/ RefreshRun
    \/ StatsSelect
    \/ HealthSelect
    \/ \E c \in Callers : Shutdown(c)
    \/ \E c \in Callers : ShutdownReturn(c)

SpecBg == InitBg /\ [][NextBg]_vars

\* the runtime runs every task that can take a step and the operation timeout
\* ends a refresh; when shutdown() is called and whether the broker is
\* reachable is up to the environment
FairSpecBg ==
    /\ SpecBg
    /\ WF_vars(RefreshRun)
    /\ WF_vars(StatsSelect /\ bg.cancelled)
    /\ WF_vars(HealthSelect /\ bg.cancelled)
    /\ \A c \in Callers : WF_vars(ShutdownReturn(c))

\* ------------------------------------------------------------------ SpecBk
\* The backoff of reconnect(). A u64 is kept as [big, lo]: lo is the value
\* when it is below 2^31, big says that it is 2^31 or more (every delay of
\* the configurations used is below 2^31, so min(.., max_delay) is exact).
WordBits == 64
MinReconnectDelayMs == 100
JitterDivisor == 5

RECURSIVE Pow2(_)
Pow2(k) == IF k = 0 THEN 1 ELSE 2 * Pow2(k - 1)

\* the number of trailing zero bits and the number of bits of b > 0
RECURSIVE TrailingZeros(_)
TrailingZeros(b) == IF b % 2 = 1 THEN 0 ELSE 1 + TrailingZeros(b \div 2)

RECURSIVE BitLen(_)
BitLen(b) == IF b = 0 THEN 0 ELSE 1 + BitLen(b \div 2)

\* base_delay * 2u64.saturating_pow(e) on u64: whether the product exceeds
\* u64::MAX, and the product modulo 2^64
MulPow(b, e) ==
    IF e >= WordBits
    THEN \* saturating_pow gives u64::MAX: b * (2^64 - 1) = 2^64 * (b-1) + 2^64 - b
         [overflow |-> b >= 2, big |-> b >= 1, lo |-> 0]
    ELSE LET z == TrailingZeros(b)
             odd == b \div Pow2(z)
             sh == z + e
             m == IF sh >= WordBits THEN 0
                  ELSE IF WordBits - sh >= BitLen(odd) THEN odd
                  ELSE odd % Pow2(WordBits - sh)
             small == /\ m > 0
                      /\ sh <= 30
                      /\ m <= (Pow2(30) - 1 + Pow2(30)) \div Pow2(sh)
         IN  [overflow |-> BitLen(b) + e > WordBits,
              big |-> m > 0 /\ ~small,
              lo |-> IF small THEN m * Pow2(sh) ELSE 0]

\* (..).min(self.config.reconnect_max_delay.as_millis() as u64)
DelayMs(b, e, max) ==
    LET p == MulPow(b, e) IN
    IF p.big \/ p.lo > max THEN max ELSE p.lo

\* (delay_ms as i64 + jitter).max(MIN_RECONNECT_DELAY_MS as i64) as u64
FinalDelay(d, j) == IF d + j > MinReconnectDelayMs THEN d + j
                    ELSE MinReconnectDelayMs

\* jitter = (delay_ms as f64 * 0.2 * r) as i64 for r in [-1, 1): the two ends
\* and the middle
Jitters(d) ==
    {-(d \div JitterDivisor), 0,
     IF d \div JitterDivisor > 0 THEN d \div JitterDivisor - 1 ELSE 0}

\* Config: base and max delay in ms with base <= max (Config::validate);
\* checked = the build traps arithmetic overflow (debug) or wraps (release)
InitBk ==
    /\ InitBase
    /\ hdr = <<>>
    /\ cidr = <<>>
    /\ ens = <<>>
    /\ rid = <<>>
    /\ bg = <<>>
    /\ bk \in {b \in [base : {1, 100, 1000}, max : {1000, 30000},
                      checked : BOOLEAN, attempt : {0}, st : {"loop"},
                      delay_ms : {0}, final_delay : {0}] : b.base <= b.max}

\* one turn of the loop up to sleep(): increment_attempts, the delay, the
\* jitter; a checked build panics when the product overflows
BkAttempt ==
    /\ bk.st \in {"loop", "slept"}
    /\ bk.attempt < MaxBackoffAttempt
    /\ LET n == bk.attempt + 1
           e == IF n >= 1 THEN n - 1 ELSE 0
       IN  \/ /\ bk.checked
              /\ MulPow(bk.base, e).overflow
              /\ bk' = [bk EXCEPT !.attempt = n, !.st = "panicked"]
           \/ /\ ~(bk.checked /\ MulPow(bk.base, e).overflow)
              /\ \E j \in Jitters(DelayMs(bk.base, e, bk.max)) :
                    bk' = [bk EXCEPT
                             !.attempt = n,
                             !.st = "slept",
                             !.delay_ms = DelayMs(bk.base, e, bk.max),
                             !.final_delay =
                                 FinalDelay(DelayMs(bk.base, e, bk.max), j)]
    /\ UNCHANGED <<clientSide, httpVars, hdr, cidr, ens, rid, bg>>

SpecBk == InitBk /\ [][BkAttempt]_vars

\* =================================================================== claims
\* -------------------------------------------------------- reconnect, envelope

\* C1: among any number of concurrent reconnect() calls at most one task is
\* between winning start_reconnecting and the clearing of the flag, and the
\* flag is set while it is there; the client handle is replaced only by that
\* task; a task that lost the swap goes from the waiting path straight to its
\* return and never replaces the handle.
C1_SingleDriver ==
    /\ [](/\ Cardinality({t \in Tasks : pc[t] \in DriverPcs}) <= 1
          /\ (\E t \in Tasks : pc[t] \in DriverPcs) => reconnecting)
    /\ [][/\ client' # client =>
                \E t \in Tasks :
                    /\ pc[t] = "rc_replace"
                    /\ pc'[t] = "rc_set_conn"
                    /\ \A u \in Tasks \ {t} : pc[u] \notin DriverPcs
          /\ \A t \in Tasks :
                pc[t] \in WaiterPcs =>
                    /\ pc'[t] \in WaiterPcs \cup {"rc_done"}
                    /\ pc'[t] # pc[t] => client' = client]_vars

C1_Witness ==
    \E d, w \in Tasks :
        /\ pc[d] = "rc_set_conn"
        /\ client = 1
        /\ pc[w] = "rc_waiting"
        /\ notified[w] = "registered"
        /\ reconnecting

\* C2: a caller of wait_for_reconnection holds its registration when it reads
\* the flag; a waiter that is blocked without having been notified sees the
\* flag set or the driver about to notify; once the flag is clear a blocked
\* waiter eventually leaves the wait; and a waiter that reads the flag clear
\* returns without blocking.
C2_NoMissedWakeup ==
    /\ [](\A t \in Tasks :
            /\ pc[t] \in {"rc_wait_chk", "rc_waiting"} =>
                  notified[t] \in {"registered", "fired"}
            /\ (pc[t] = "rc_waiting" /\ notified[t] # "fired") =>
                  (reconnecting \/ \E d \in Tasks : pc[d] = "rc_stop_notify"))
    /\ \A t \in Tasks :
          (pc[t] = "rc_waiting" /\ ~reconnecting) ~> (pc[t] # "rc_waiting")
    /\ [][\A t \in Tasks :
             (pc[t] = "rc_wait_chk" /\ pc'[t] # pc[t] /\ ~reconnecting) =>
                 pc'[t] = "rc_wait_ret"]_vars

C2_Witness ==
    \E d, w \in Tasks :
        /\ pc[d] = "rc_stop_notify"
        /\ ~reconnecting
        /\ pc[w] = "rc_waiting"
        /\ notified[w] = "registered"

\* C3: in one execution of with_reconnect the closure is invoked at most
\* twice; it has been invoked twice only if the first attempt ended in an
\* error is_connection_error matches or in a timeout seen with is_connected
\* false, and reconnect() returned Ok; when reconnect() returned an error the
\* execution ends with that error after a single invocation.
C3_AtMostOneRetry ==
    \A t \in Tasks :
        /\ calls[t] <= 2
        /\ calls[t] = 2 =>
              /\ first[t] \in {"ConnectionFailed", "Disconnected",
                               "ConnectionReset", "TimeoutDisconnected"}
              /\ rc[t] = "Ok"
        /\ (/\ pc[t] = "done"
            /\ rc[t] \in {"ConnectionFailed_Exhausted",
                          "ConnectionFailed_OtherTask"}) =>
              /\ ret[t] = rc[t]
              /\ calls[t] = 1

C3_Witness ==
    \E t, u \in Tasks :
        /\ pc[t] = "done"
        /\ calls[t] = 2
        /\ first[t] = "TimeoutDisconnected"
        /\ ret[t] = "Ok"
        /\ pc[u] = "done"
        /\ calls[u] = 1
        /\ first[u] = "ConnectionFailed"
        /\ ret[u] = "ConnectionFailed_OtherTask"

\* C4: when the broker call of a facade operation's first attempt fails
\* because the connection is lost, the envelope's match records one breaker
\* failure and goes on to reconnect().
C4_LostConnectionIsConnectionClass ==
    [][\A t \in Tasks :
          (/\ pc[t] = "op1_done"
           /\ pc'[t] # "op1_done"
           /\ op[t] \in FacadeOps
           /\ lost[t])
          => (/\ pc'[t] = "rc_start"
              /\ cb' = RecordFailure(cb, now).st)]_vars

\* C11: when allow_request answered false, with_reconnect ends with
\* CircuitOpen in its next step: the closure has not been invoked, reconnect()
\* has not been called and the breaker is left as it was.
C11_DeniedReturnsCircuitOpen ==
    /\ [](\A t \in Tasks :
            (pc[t] = "done" /\ ret[t] = "CircuitOpen") =>
                (calls[t] = 0 /\ rc[t] = "none" /\ ~ar[t]))
    /\ [][\A t \in Tasks :
             (pc[t] = "ar_done" /\ pc'[t] # "ar_done" /\ ~ar[t]) =>
                 /\ pc'[t] = "done"
                 /\ ret'[t] = "CircuitOpen"
                 /\ calls'[t] = 0
                 /\ readers' = readers
                 /\ UNCHANGED cbVars]_vars

C11_Witness ==
    \E t \in Tasks :
        /\ pc[t] = "done"
        /\ ret[t] = "CircuitOpen"
        /\ calls[t] = 0
        /\ cb.state = "Open"
        /\ requests_rejected = 1

\* C12: a first attempt that timed out while is_connected is true ends with
\* OperationTimeout after one invocation, without reconnect() and with the
\* breaker untouched; while is_connected is false the next step records one
\* breaker failure and enters reconnect().
C12_FirstTimeout ==
    /\ [](\A t \in Tasks :
            (pc[t] = "done" /\ ret[t] = "OperationTimeout") =>
                (calls[t] = 1 /\ rc[t] = "none"))
    /\ [][\A t \in Tasks :
             /\ (pc[t] = "op1_done" /\ pc'[t] # "op1_done"
                    /\ first[t] = "Timeout") =>
                   /\ UNCHANGED cbVars
                   /\ calls'[t] = 1
                   /\ IF connected
                      THEN pc'[t] = "done" /\ ret'[t] = "OperationTimeout"
                      ELSE pc'[t] = "to_fail"
             /\ (pc[t] = "to_fail" /\ pc'[t] # "to_fail") =>
                   /\ pc'[t] = "rc_start"
                   /\ calls'[t] = 1
                   /\ cb' = RecordFailure(cb, now).st]_vars

C12_Witness ==
    \E t, u \in Tasks :
        /\ pc[t] = "done"
        /\ ret[t] = "OperationTimeout"
        /\ pc[u] = "rc_start"
        /\ first[u] = "TimeoutDisconnected"
        /\ cb.consecutive_failures >= 1

\* C13: an attempt, first or retry, that returned an error other than
\* ConnectionFailed, Disconnected and ConnectionReset ends with_reconnect with
\* that same error in its next step, without reconnect() and with the breaker
\* untouched.
C13_OtherErrorsPassThrough ==
    [][\A t \in Tasks :
          LET other(e) == e \notin {"Ok", "Timeout", "ConnectionFailed",
                                    "Disconnected", "ConnectionReset"}
          IN  /\ (pc[t] = "op1_done" /\ pc'[t] # "op1_done"
                     /\ other(first[t])) =>
                    /\ pc'[t] = "done"
                    /\ ret'[t] = first[t]
                    /\ UNCHANGED cbVars
              /\ (pc[t] = "op2_done" /\ pc'[t] # "op2_done"
                     /\ other(second[t])) =>
                    /\ pc'[t] = "done"
                    /\ ret'[t] = second[t]
                    /\ UNCHANGED cbVars]_vars

C13_Witness ==
    \E t, u \in Tasks :
        /\ pc[t] = "done"
        /\ calls[t] = 2
        /\ ret[t] = "SendError"
        /\ pc[u] = "done"
        /\ calls[u] = 1
        /\ ret[u] = "SendError"

\* C14: a driver of reconnect() that found the attempts counter at 0, with
\* max_attempts = m > 0, makes at most m connection attempts; when all of them
\* failed its next pass through the loop returns ConnectionFailed ("Failed to
\* reconnect after m attempts") after exactly m attempts with is_connected
\* false, and the driver always terminates.
C14_BoundedAttempts ==
    /\ [](\A t \in Tasks :
            (pc[t] \in DriverPcs /\ Recorded(t) /\ drive[t].from = 0) =>
                /\ drive[t].tries <= MaxReconnectAttempts
                /\ (pc[t] = "rc_loop" =>
                       drive[t].tries = reconnect_attempts /\ ~connected))
    /\ [][\A t \in Tasks :
             (/\ pc[t] = "rc_loop"
              /\ Recorded(t)
              /\ drive[t].from = 0
              /\ drive[t].tries >= MaxReconnectAttempts
              /\ pc'[t] # "rc_loop") =>
                 /\ drive[t].tries = MaxReconnectAttempts
                 /\ pc'[t] = "rc_stop_store"
                 /\ rc'[t] = "ConnectionFailed_Exhausted"
                 /\ ~connected']_vars
    /\ [][\A t \in Tasks :
             (/\ Recorded(t)
              /\ drive[t].from = 0
              /\ rc[t] # "ConnectionFailed_Exhausted"
              /\ rc'[t] = "ConnectionFailed_Exhausted") =>
                 drive[t].tries = MaxReconnectAttempts]_vars
    /\ \A t \in Tasks :
          (pc[t] = "rc_loop" /\ Recorded(t) /\ drive[t].from = 0)
              ~> (pc[t] = "rc_done")

C14_Witness ==
    \E t \in Tasks :
        /\ pc[t] = "rc_stop_store"
        /\ rc[t] = "ConnectionFailed_Exhausted"
        /\ drive[t].from = 0
        /\ drive[t].tries = MaxReconnectAttempts
        /\ reconnect_attempts = MaxReconnectAttempts + 1
        /\ ~connected

\* C15: a caller of reconnect() that waited on the rendezvous returns what the
\* driver it waited for returned: Ok when that driver reconnected,
\* ConnectionFailed when that driver failed or gave up.
C15_WaiterSharesOutcome ==
    [][\A t \in Tasks :
          (pc[t] = "rc_wait_ret" /\ pc'[t] = "rc_done" /\ Recorded(t)) =>
              /\ (rc'[t] = "Ok" <=> seen[t] = "Ok")
              /\ (rc'[t] = "ConnectionFailed_OtherTask" <=> seen[t] = "Failed")
      ]_vars

\* C17: a key whose bucket is full (here: a key the limiter has not seen, at
\* the first instant) has its first r + b back-to-back requests admitted, and
\* only a request after those is answered 429.
C17_FullBucketAdmitsRpsPlusBurst ==
    \A k \in Keys :
        clock = 0 =>
            /\ Len(rl_log[k]) <= Rps + Burst
            /\ (rl_resp.key = k /\ rl_resp.status = 429) =>
                   Len(rl_log[k]) = Rps + Burst

\* C18: every 429 of the request limiter and of the auth-failure limiter
\* carries a Retry-After of at least one second that is not smaller than the
\* wait the limiter reported when it refused the cell.
C18_RetryAfterCoversWait ==
    /\ rl_resp.status = 429 =>
          /\ rl_resp.retry_after >= 1
          /\ rl_resp.retry_after * TicksPerSecond >= rl_resp.wait
    /\ \A i \in Requests :
          req[i].status = 429 =>
              /\ req[i].retry_after >= 1
              /\ req[i].retry_after * TicksPerSecond >= req[i].wait

C20_OneTokenPerFailure ==
    \A i \in Requests :
        /\ (req[i].status = 401 => req[i].consumed = 1)
        /\ (req[i].cred = "valid" =>
               req[i].consumed = 0 /\ req[i].status # 429)

\* C28: every reconnect() that wins the flag has its own budget of attempts:
\* its first pass through the loop goes on to a connection attempt, also when
\* an earlier reconnect() exhausted its attempts.
C28_DriverAlwaysAttempts ==
    [][\A t \in Tasks :
          (/\ pc[t] = "rc_loop"
           /\ Recorded(t)
           /\ drive[t].tries = 0
           /\ pc'[t] # "rc_loop") =>
              pc'[t] = "rc_connect"]_vars

\* C29: a reconnect() called before another caller's reconnect() succeeded
\* does not undo that reconnection: once it is past the swap it leaves
\* is_connected as it found it.
C29_LateCallerKeepsConnection ==
    [][\A t \in Tasks :
          (/\ pc[t] = "rc_set_disc"
           /\ Recorded(t)
           /\ seen[t] = "Ok"
           /\ pc'[t] # "rc_set_disc") =>
              connected' = connected]_vars

\* C30: the retry that follows a successful reconnect() is not executed while
\* the breaker is Open: the step that invokes the closure for the second time
\* starts in a state whose phase is not Open.
C30_NoRetryWhileOpen ==
    [][\A t \in Tasks :
          (pc[t] = "rc_done" /\ pc'[t] = "op2_run") =>
              cb.state # "Open"]_vars

\* C21: with trusted-proxy validation enabled, a request whose peer is outside
\* every configured range gets the sentinel key from the rate limiter's
\* extraction, whatever its X-Forwarded-For and X-Real-IP say.
C21_UntrustedPeerGetsSentinel ==
    (/\ hdr.key # NoKey
     /\ hdr.key.by = "rate_limit"
     /\ hdr.validation
     /\ ~hdr.peer_in_range) => hdr.key.ip = UnknownIp

\* C24: an ensure call returns Ok whenever the resource exists when it
\* finishes, also when it was created between the caller's lookup and its
\* create; the resource is created once.
C24_EnsureToleratesPeer ==
    /\ \A t \in Callers :
          (ens.pc[t] = "done" /\ ens.existed[t] /\ ens.answer[t] # "Err")
             => ens.ret[t] = "Ok"
    /\ ens.created <= 1

\* C25: every response carries X-Request-Id, equal to the request's header
\* value when that is present and non-empty and otherwise a generated UUID,
\* the 429 and 401 responses of the rate-limit and authentication layers
\* included.
C25_EveryResponseHasRequestId ==
    rid.at = "done" =>
        rid.response_header =
            (IF rid.header \in {"absent", "", "opaque"} THEN "uuid"
             ELSE rid.header)

\* C22: after shutdown() has returned no refresh is written: every later read
\* of the snapshot equals the read taken right after shutdown().
C22_NoRefreshAfterShutdown ==
    \A c \in Callers : bg.sd[c] = "returned" => bg.cache = bg.snap[c]

\* shutdown() returned after a cancellation that arrived while a refresh was
\* in flight, and that refresh was written
C22_Witness ==
    /\ \E c \in Callers : bg.sd[c] = "returned"
    /\ bg.in_flight_at_cancel
    /\ bg.cache = MaxRefreshes

\* C23: once shutdown() has fired the cancellation, both tasks terminate and
\* shutdown() returns, also when a refresh is in flight at that moment and
\* for a second caller.
C23_ShutdownCompletes ==
    \A c \in Callers :
        (bg.sd[c] = "waiting") ~>
            (bg.sd[c] = "returned" /\ bg.stats = "exited"
                                   /\ bg.health = "exited")

\* both callers of shutdown() have returned, the first call having come while
\* a refresh was in flight
C23_Witness ==
    /\ \A c \in Callers : bg.sd[c] = "returned"
    /\ bg.in_flight_at_cancel

\* C26: a parsed range contains an address iff the address is of the range's
\* family and its leading prefix_len bits equal the network's; prefix length 0
\* contains every address of the family; a bare address parses as /32 (IPv4)
\* or /128 (IPv6); "address/n" with n longer than the family's width does
\* not parse.
C26_ContainsIffPrefixMatches ==
    LET parts == cidr.parts
        R == cidr.range[1]
    IN  /\ cidr.pc = "done" =>
             /\ cidr.contains <=>
                   /\ cidr.ip.family = R.network.family
                   /\ \A i \in 1..R.prefix_len :
                         cidr.ip.bits[i] = R.network.bits[i]
             /\ (R.prefix_len = 0 /\ cidr.ip.family = R.network.family)
                   => cidr.contains
        /\ (cidr.pc # "parse" /\ Len(parts) = 1 /\ parts[1].kind = "ip") =>
             /\ cidr.range # <<>>
             /\ R.network = parts[1].ip
             /\ R.prefix_len =
                   (IF parts[1].ip.family = "V4" THEN 32 ELSE 128)
        /\ (/\ cidr.pc # "parse"
            /\ Len(parts) = 2
            /\ parts[1].kind = "ip"
            /\ parts[2].kind = "num"
            /\ parts[2].n > (IF parts[1].ip.family = "V4" THEN 32 ELSE 128))
             => cidr.range = <<>>

\* a /31 range and an address that differs from the network in the last bit
\* only: contained
C26_Witness ==
    /\ cidr.pc = "done"
    /\ cidr.range[1].prefix_len = 31
    /\ cidr.ip.family = "V4"
    /\ cidr.ip.bits[32] # cidr.range[1].network.bits[32]
    /\ cidr.contains

C5_OpensAtThreshold ==
    /\ [](cb.state = "Closed" => fail_streak < FailureThreshold)
    /\ [][CbRecordFailure =>
            /\ (cb.state = "Closed" /\ fail_streak + 1 = FailureThreshold) =>
                  /\ cb'.state = "Open"
                  /\ cb'.opened_at = now
                  /\ times_opened' = times_opened + 1
            /\ (cb.state = "Closed" /\ fail_streak + 1 < FailureThreshold) =>
                  /\ cb'.state = "Closed"
                  /\ times_opened' = times_opened
            /\ cb.state = "Open" =>
                  /\ cb'.state = "Open"
                  /\ times_opened' = times_opened]_vars

C5_Witness ==
    /\ cb.state = "Open"
    /\ cb.consecutive_failures = FailureThreshold
    /\ fail_streak = FailureThreshold
    /\ times_opened = 1
    /\ cb.opened_at = now

\* C6: while the breaker is Open and less than OpenDuration has elapsed since
\* opened_at, an allow_request that takes the lock returns false, adds exactly
\* one to requests_rejected and changes nothing else; nobody is admitted.
C6_NoAdmissionWhileOpen ==
    [][\A t \in Tasks :
          (/\ pc[t] \in {"ar_read", "ar_write"}
           /\ pc'[t] # pc[t]
           /\ cb.state = "Open"
           /\ cb.opened_at # None
           /\ now - cb.opened_at < OpenDuration)
          => (/\ pc'[t] = "ar_done"
              /\ ar'[t] = FALSE
              /\ requests_rejected' = requests_rejected + 1
              /\ cb' = cb)]_vars

C6_Witness ==
    \E t \in Tasks :
        /\ pc[t] = "ar_done"
        /\ ar[t] = FALSE
        /\ cb.state = "Open"
        /\ cb.opened_at # None
        /\ now - cb.opened_at < OpenDuration
        /\ requests_rejected >= 1

\* C7: when OpenDuration has elapsed in Open and several callers are in
\* allow_request, the caller that takes the write lock first performs the
\* Open -> HalfOpen change and zeroes consecutive_successes; a caller that
\* takes the write lock when the phase is no longer Open changes nothing and
\* is admitted; no other step moves the breaker from Open to HalfOpen.
C7_HalfOpenOnce ==
    [][/\ \A t \in Tasks :
             (pc[t] = "ar_write" /\ pc'[t] # "ar_write") =>
                 /\ cb.state # "Open" => (cb' = cb /\ ar'[t] = TRUE)
                 /\ (/\ cb.state = "Open"
                     /\ cb.opened_at # None
                     /\ now - cb.opened_at >= OpenDuration)
                    => (/\ cb'.state = "HalfOpen"
                        /\ cb'.consecutive_successes = 0
                        /\ ar'[t] = TRUE)
       /\ (cb.state = "Open" /\ cb'.state = "HalfOpen") =>
             /\ cb.opened_at # None
             /\ now - cb.opened_at >= OpenDuration
             /\ cb'.consecutive_successes = 0
             /\ \E t \in Tasks : pc[t] = "ar_write" /\ pc'[t] = "ar_done"]_vars

C7_Witness ==
    \E t1, t2 \in Tasks :
        /\ t1 # t2
        /\ pc[t1] = "ar_done"
        /\ ar[t1] = TRUE
        /\ pc[t2] = "ar_write"
        /\ cb.state = "HalfOpen"
        /\ cb.consecutive_successes > 0

\* C8: in HalfOpen fewer than SuccessThreshold successes have been recorded
\* since the phase was entered; a success that is not the SuccessThreshold-th
\* leaves the phase HalfOpen and the SuccessThreshold-th closes the breaker.
C8_ClosesOnThresholdSuccess ==
    /\ [](cb.state = "HalfOpen" => ok_streak < SuccessThreshold)
    /\ [][(CbRecordSuccess /\ cb.state = "HalfOpen") =>
            IF ok_streak + 1 = SuccessThreshold
            THEN cb'.state = "Closed"
            ELSE cb'.state = "HalfOpen"]_vars

C8_Witness ==
    /\ cb.state = "Closed"
    /\ cb.consecutive_successes = SuccessThreshold
    /\ ok_streak = SuccessThreshold
    /\ times_opened >= 1

\* C9: a record_failure while HalfOpen moves the breaker to Open, sets
\* opened_at to the current instant, zeroes consecutive_successes and adds one
\* to times_opened.
C9_HalfOpenFailureReopens ==
    [][(CbRecordFailure /\ cb.state = "HalfOpen") =>
          /\ cb'.state = "Open"
          /\ cb'.opened_at = now
          /\ cb'.consecutive_successes = 0
          /\ times_opened' = times_opened + 1]_vars

C9_Witness ==
    /\ cb.state = "Open"
    /\ times_opened = 2
    /\ cb.consecutive_failures = FailureThreshold
    /\ cb.opened_at = now
    /\ now >= OpenDuration
    /\ ok_streak = 0
    /\ fail_streak = 1

\* C10: after the success that closes the breaker from HalfOpen the phase is
\* Closed and consecutive_failures and consecutive_successes are both zero.
C10_ClosedCountersZero ==
    [][(CbRecordSuccess /\ cb.state = "HalfOpen" /\ cb'.state = "Closed") =>
          /\ cb'.consecutive_failures = 0
          /\ cb'.consecutive_successes = 0]_vars

\* C35: in HalfOpen only the probe is admitted: after the caller that moved
\* the breaker to HalfOpen, and before any result has been recorded, a caller
\* that finds the breaker HalfOpen is not admitted.
C35_HalfOpenAdmitsOneProbe ==
    [][\A t \in Tasks :
          (/\ pc[t] = "ar_read"
           /\ pc'[t] = "ar_done"
           /\ cb.state = "HalfOpen"
           /\ ok_streak = 0) => ar'[t] = FALSE]_vars

\* C36: record_success while Open changes neither the breaker state nor the
\* two counters.
C36_SuccessWhileOpenIgnored ==
    [][(CbRecordSuccess /\ cb.state = "Open") =>
          /\ cb'.state = "Open"
          /\ cb'.opened_at = cb.opened_at
          /\ cb'.consecutive_failures = cb.consecutive_failures
          /\ cb'.consecutive_successes = cb.consecutive_successes
          /\ times_opened' = times_opened
          /\ requests_rejected' = requests_rejected]_vars

\* the breaker opened once, by failures, and the last call recorded since
\* then was a success
C36_Witness ==
    /\ cb.state = "Open"
    /\ times_opened = 1
    /\ cb.consecutive_failures = FailureThreshold
    /\ fail_streak = 0
    /\ ok_streak >= 1

\* C37: record_failure while Open keeps the phase and times_opened and sets
\* opened_at to the current instant; a caller is let past an Open breaker
\* only when OpenDuration has elapsed since the last recorded failure.
C37_FailureWhileOpenRestartsTimer ==
    /\ [][(CbRecordFailure /\ cb.state = "Open") =>
             /\ cb'.state = "Open"
             /\ cb'.opened_at = now
             /\ times_opened' = times_opened]_vars
    /\ [][(cb.state = "Open" /\ cb'.state = "HalfOpen") =>
             now - cb.opened_at >= OpenDuration]_vars

\* three failures in a row since the last success, the third recorded while
\* Open and later than the opening
C37_Witness ==
    /\ cb.state = "Open"
    /\ times_opened = 1
    /\ fail_streak = FailureThreshold + 1
    /\ cb.opened_at = now
    /\ now >= 1

\* C38: whenever the phase is Open, opened_at is set.
C38_OpenHasOpenedAt ==
    cb.state = "Open" => cb.opened_at # None

\* opened by force_open from the initial state
C38_Witness ==
    /\ cb.state = "Open"
    /\ cb.consecutive_failures = 0
    /\ times_opened = 1
    /\ cb.opened_at = now

\* C39: a refresh whose broker call fails leaves the cached snapshot as the
\* last successful refresh wrote it, and a reader after it gets that
\* snapshot.
C39_FailedRefreshKeepsSnapshot ==
    [][/\ (bg.stats = "op" /\ bg'.stats = "select"
             /\ bg'.last_refresh = "err") => bg'.cache = bg.cache
       /\ \A c \in Callers :
             (bg.sd[c] = "waiting" /\ bg'.sd[c] = "returned"
                /\ bg.last_refresh = "err") => bg'.snap[c] = bg.cache]_vars

\* a refresh failed after one that succeeded, and a reader got the snapshot
\* of the one that succeeded
C39_Witness ==
    /\ bg.last_refresh = "err"
    /\ bg.cache >= 1
    /\ \E c \in Callers : bg.sd[c] = "returned" /\ bg.snap[c] = bg.cache

\* C31: the step that follows the retry attempt ends with_reconnect after two
\* invocations: a timeout returns OperationTimeout "on retry" and records one
\* breaker failure, a connection-class error is returned as it is and records
\* one breaker failure, a success returns Ok and records one breaker success.
C31_RetryOutcome ==
    [][\A t \in Tasks :
          (pc[t] = "op2_done" /\ pc'[t] # "op2_done") =>
             /\ pc'[t] = "done"
             /\ calls'[t] = 2
             /\ rc'[t] = rc[t]
             /\ second[t] = "Timeout" =>
                   /\ ret'[t] = "OperationTimeout_OnRetry"
                   /\ cb' = RecordFailure(cb, now).st
                   /\ times_opened' = times_opened + RecordFailure(cb, now).opened
             /\ second[t] \in {"ConnectionFailed", "Disconnected",
                               "ConnectionReset"} =>
                   /\ ret'[t] = second[t]
                   /\ cb' = RecordFailure(cb, now).st
                   /\ times_opened' = times_opened + RecordFailure(cb, now).opened
             /\ second[t] = "Ok" =>
                   /\ ret'[t] = "Ok"
                   /\ cb' = RecordSuccess(cb)
                   /\ times_opened' = times_opened]_vars

\* one caller ended with the retry's timeout, another with the retry's
\* connection error
C31_Witness ==
    \E t, u \in Tasks :
        /\ pc[t] = "done"
        /\ calls[t] = 2
        /\ ret[t] = "OperationTimeout_OnRetry"
        /\ pc[u] = "done"
        /\ calls[u] = 2
        /\ ret[u] \in {"ConnectionFailed", "Disconnected", "ConnectionReset"}

\* C32: the reconnecting flag is true only while some task drives the loop;
\* a driver leaves the loop, by success, exhaustion or abandonment, only
\* through the guard, which clears the flag and then notifies every
\* registered waiter.
C32_FlagClearedOnEveryExit ==
    /\ [](reconnecting => \E t \in Tasks : pc[t] \in DriverPcs)
    /\ [][\A t \in Tasks :
             /\ (pc[t] \in DriverPcs /\ pc'[t] \notin DriverPcs) =>
                   (pc'[t] = "rc_stop_notify" /\ ~reconnecting')
             /\ (pc[t] = "rc_stop_notify" /\ pc'[t] # "rc_stop_notify") =>
                   /\ pc'[t] = "rc_done"
                   /\ \A u \in Tasks :
                         notified[u] = "registered" => notified'[u] = "fired"]_vars

\* an abandoned driver has cleared the flag and is about to notify a waiter
C32_Witness ==
    \E t, u \in Tasks :
        /\ pc[t] = "rc_stop_notify"
        /\ rc[t] = "Cancelled"
        /\ ~reconnecting
        /\ pc[u] = "rc_waiting"
        /\ notified[u] = "registered"

\* C34: at the step at which with_reconnect returns Ok, is_connected() is
\* true (stated for the returns at which no reconnect() is in progress, when
\* nothing else is about to set the flag).
C34_OkImpliesConnected ==
    [][\A t \in Tasks :
          (pc[t] # "done" /\ pc'[t] = "done" /\ ret'[t] = "Ok"
              /\ ~reconnecting) => connected']_vars

\* C33: an operation that is in flight on the held client while a driver has
\* its new connection and is replacing the handle does not complete normally:
\* its attempt ends with a connection-class error or a timeout, never with Ok.
C33_NoNormalCompletionOnReplacedHandle ==
    [][\A t \in Tasks :
          (/\ t \in readers
           /\ \E d \in Tasks : pc[d] = "rc_replace"
           /\ pc[t] \in {"op1_run", "op2_run"}
           /\ pc'[t] \in {"op1_done", "op2_done"}) =>
             (IF pc[t] = "op1_run" THEN first'[t] ELSE second'[t]) # "Ok"]_vars

\* C40: for every attempt n >= 1 the loop reaches sleep() with the pre-jitter
\* delay min(base * 2^(n-1), max_delay), computed without overflow of the
\* product, and sleeps at least 100 ms.
C40_BackoffDelay ==
    /\ bk.st # "panicked"
    /\ bk.st = "slept" =>
          LET e == bk.attempt - 1
              ideal == IF e > 30 \/ Pow2(IF e > 30 THEN 0 ELSE e) > bk.max \div bk.base
                       THEN bk.max
                       ELSE bk.base * Pow2(e)
          IN  /\ bk.delay_ms = ideal
              /\ bk.final_delay >= MinReconnectDelayMs
====
